---- MODULE Spec2Model ----
(***************************************************************************)
(* A model of refgenconf.RefGenConf (src/refgenconf/refgenconf.py): the    *)
(* genome configuration document held by a RefGenConf object and the       *)
(* methods that read and change it.                                        *)
(*                                                                         *)
(* The document is the value of self[CFG_GENOMES_KEY]: a mapping           *)
(*   genome -> { "assets" -> { asset -> { "default_tag", "tags" -> {...}}}}*)
(* A mapping (attmap.PathExAttMap) is a function whose DOMAIN is its set   *)
(* of keys; the tag mapping of an asset, whose key order get_default_tag   *)
(* reads, is a sequence of [name, data] entries in insertion order.        *)
(* Every method is an operator from a configuration to a result record     *)
(* [cfg, exc, ret, warn, asked]: the configuration it leaves behind (also  *)
(* when it raises), the exception class it raises ("" when it returns),    *)
(* the value it returns, whether it emitted a RuntimeWarning and the       *)
(* questions it put to the user through query_yes_no.                      *)
(***************************************************************************)
EXTENDS Integers, Sequences, FiniteSets, TLC

(***************************************************************************)
(* Bounds of the model.                                                    *)
(***************************************************************************)
\* number of method calls made on one RefGenConf object
MaxSteps == 2
\* the number of pull_asset calls made on one object
MaxPulls == 1

(***************************************************************************)
(* Names and keys.                                                         *)
(***************************************************************************)
None == "None"
\* an argument that is neither None nor a str (e.g. the int 5)
NotAStr == "<int>"

CFG_ASSETS_KEY == "assets"
CFG_ASSET_TAGS_KEY == "tags"
CFG_ASSET_DEFAULT_TAG_KEY == "default_tag"
CFG_SEEK_KEYS_KEY == "seek_keys"
CFG_ASSET_PARENTS_KEY == "asset_parents"
CFG_ASSET_CHILDREN_KEY == "asset_children"
CFG_ASSET_PATH_KEY == "asset_path"
CFG_ASSET_CHECKSUM_KEY == "asset_digest"
DEFAULT_TAG == "default"

GenomeNames == {"g1", "g2"}
AssetNames == {"a", "b"}
TagNames == {DEFAULT_TAG, "t1"}

(***************************************************************************)
(* Mappings.                                                               *)
(***************************************************************************)
EmptyMap == [x \in {} |-> x]
\* m[k] = v
Put(m, k, v) == (k :> v) @@ m
\* del m[k]
Del(m, k) == [x \in DOMAIN m \ {k} |-> m[x]]
\* m.setdefault(k, v)
SetDefault(m, k, v) == IF k \in DOMAIN m THEN m ELSE Put(m, k, v)
\* m.update(d): every key of d is (re)bound, the other keys of m are kept
Update(m, d) == d @@ m

\* the ordered tag mapping: a sequence of [name, data], in insertion order
OKeys(m) == {m[i].name : i \in DOMAIN m}
OHas(m, k) == \E i \in DOMAIN m : m[i].name = k
OIndex(m, k) == CHOOSE i \in DOMAIN m : m[i].name = k
OGet(m, k) == m[OIndex(m, k)].data
OPut(m, k, v) ==
    IF OHas(m, k)
    THEN SubSeq(m, 1, OIndex(m, k) - 1) \o <<[name |-> k, data |-> v]>>
             \o SubSeq(m, OIndex(m, k) + 1, Len(m))
    ELSE Append(m, [name |-> k, data |-> v])
ODel(m, k) == SelectSeq(m, LAMBDA e : e.name # k)
OSetDefault(m, k, v) == IF OHas(m, k) THEN m ELSE OPut(m, k, v)

(***************************************************************************)
(* The configuration: c.genomes is self[CFG_GENOMES_KEY] when that is a    *)
(* mapping; c.genomes_none says that self[CFG_GENOMES_KEY] is None.        *)
(***************************************************************************)
EmptyCfg == [genomes |-> EmptyMap, genomes_none |-> FALSE]

HasGenome(c, g) == ~c.genomes_none /\ g \in DOMAIN c.genomes
HasAssets(c, g) == HasGenome(c, g) /\ CFG_ASSETS_KEY \in DOMAIN c.genomes[g]
HasAsset(c, g, a) == HasAssets(c, g) /\ a \in DOMAIN c.genomes[g].assets
HasTags(c, g, a) ==
    HasAsset(c, g, a) /\ CFG_ASSET_TAGS_KEY \in DOMAIN c.genomes[g].assets[a]
HasTag(c, g, a, t) == HasTags(c, g, a) /\ OHas(c.genomes[g].assets[a].tags, t)

AssetOf(c, g, a) == c.genomes[g].assets[a]
TagsOf(c, g, a) == c.genomes[g].assets[a].tags
TagOf(c, g, a, t) == OGet(c.genomes[g].assets[a].tags, t)

WithGenome(c, g, v) == [c EXCEPT !.genomes = Put(@, g, v)]
WithAsset(c, g, a, v) ==
    WithGenome(c, g, Put(c.genomes[g], CFG_ASSETS_KEY, Put(c.genomes[g].assets, a, v)))
WithTag(c, g, a, t, d) ==
    WithAsset(c, g, a, Put(AssetOf(c, g, a), CFG_ASSET_TAGS_KEY, OPut(TagsOf(c, g, a), t, d)))

\* results of a method
Return(c, v) == [cfg |-> c, exc |-> "", ret |-> v, warn |-> FALSE, asked |-> <<>>]
ReturnWarn(c, v) == [cfg |-> c, exc |-> "", ret |-> v, warn |-> TRUE, asked |-> <<>>]
Raise(c, e) == [cfg |-> c, exc |-> e, ret |-> None, warn |-> FALSE, asked |-> <<>>]
Asking(r, questions) == [r EXCEPT !.asked = questions]

\* a data argument: None, a Mapping, or an object that is neither
NoData == [kind |-> "none", val |-> EmptyMap]
MapData(d) == [kind |-> "map", val |-> d]
BadData == [kind |-> "bad", val |-> EmptyMap]

\* _check_insert_data(obj, str, name) for a name argument
CheckInsertName(obj) ==
    IF obj = None THEN "False" ELSE IF obj = NotAStr THEN "TypeError" ELSE "True"
\* _check_insert_data(obj, Mapping, name) for a data argument
CheckInsertData(data) ==
    IF data.kind = "none" THEN "False" ELSE IF data.kind = "bad" THEN "TypeError" ELSE "True"

(***************************************************************************)
(* _assert_gat_exists(genomes, gname, aname, tname, allow_incomplete):     *)
(* the exception class it raises, or "" when it returns.                   *)
(***************************************************************************)
\* (mutant) a missing tag is reported as a missing asset
AssertGatExists_NoTagLookup(c, gname, aname, tname, allow_incomplete) ==
    IF c.genomes_none THEN "TypeError"
    ELSE IF gname \notin DOMAIN c.genomes THEN "MissingGenomeError"
    ELSE IF aname = None THEN ""
    ELSE IF ~HasAsset(c, gname, aname) THEN "MissingAssetError"
    ELSE IF tname = None THEN ""
    ELSE IF ~HasTag(c, gname, aname, tname) THEN "MissingAssetError"
    ELSE IF CFG_SEEK_KEYS_KEY \notin DOMAIN TagOf(c, gname, aname, tname)
            /\ ~allow_incomplete
         THEN "MissingSeekKeyError"
    ELSE ""

\* _assert_gat_exists: the exception it raises, "" when it returns
AssertGatExists(c, gname, aname, tname, allow_incomplete) ==
    IF c.genomes_none THEN "TypeError"
    ELSE IF gname \notin DOMAIN c.genomes THEN "MissingGenomeError"
    ELSE IF aname = None THEN ""
    ELSE IF ~HasAsset(c, gname, aname) THEN "MissingAssetError"
    ELSE IF tname = None THEN ""
    ELSE IF ~HasTag(c, gname, aname, tname) THEN "MissingTagError"
    ELSE IF CFG_SEEK_KEYS_KEY \notin DOMAIN TagOf(c, gname, aname, tname)
            /\ ~allow_incomplete
         THEN "MissingSeekKeyError"
    ELSE ""

(***************************************************************************)
(* update_tags, update_assets, update_genomes                              *)
(***************************************************************************)
\* the configuration after the setdefault calls that create genome/asset
EnsureGenome(c, g, v) == [c EXCEPT !.genomes = SetDefault(@, g, v)]
EnsureAsset(c, g, a) ==
    LET c1 == WithGenome(c, g, SetDefault(c.genomes[g], CFG_ASSETS_KEY, EmptyMap))
    IN  WithGenome(c1, g, Put(c1.genomes[g], CFG_ASSETS_KEY,
                              SetDefault(c1.genomes[g].assets, a, EmptyMap)))
EnsureTag(c, g, a, t) ==
    LET c1 == WithAsset(c, g, a, SetDefault(AssetOf(c, g, a), CFG_ASSET_TAGS_KEY, <<>>))
    IN  WithAsset(c1, g, a, Put(AssetOf(c1, g, a), CFG_ASSET_TAGS_KEY,
                                OSetDefault(TagsOf(c1, g, a), t, EmptyMap)))

update_tags(c, genome, asset, tag, data) ==
    IF CheckInsertName(genome) = "TypeError" THEN Raise(c, "TypeError")
    ELSE IF CheckInsertName(genome) = "False" THEN Return(c, "self")
    ELSE IF c.genomes_none THEN Raise(c, "AttributeError")
    ELSE LET c1 == EnsureGenome(c, genome, EmptyMap) IN
    IF CheckInsertName(asset) = "TypeError" THEN Raise(c1, "TypeError")
    ELSE IF CheckInsertName(asset) = "False" THEN Return(c1, "self")
    ELSE LET c2 == EnsureAsset(c1, genome, asset) IN
    IF CheckInsertName(tag) = "TypeError" THEN Raise(c2, "TypeError")
    ELSE IF CheckInsertName(tag) = "False" THEN Return(c2, "self")
    ELSE LET c3 == EnsureTag(c2, genome, asset, tag) IN
    IF CheckInsertData(data) = "TypeError" THEN Raise(c3, "TypeError")
    ELSE IF CheckInsertData(data) = "False" THEN Return(c3, "self")
    ELSE Return(WithTag(c3, genome, asset, tag,
                        Update(TagOf(c3, genome, asset, tag), data.val)), "self")

update_assets(c, genome, asset, data) ==
    IF CheckInsertName(genome) = "TypeError" THEN Raise(c, "TypeError")
    ELSE IF CheckInsertName(genome) = "False" THEN Return(c, "self")
    ELSE IF c.genomes_none THEN Raise(c, "AttributeError")
    ELSE LET c1 == EnsureGenome(c, genome, EmptyMap) IN
    IF CheckInsertName(asset) = "TypeError" THEN Raise(c1, "TypeError")
    ELSE IF CheckInsertName(asset) = "False" THEN Return(c1, "self")
    ELSE LET c2 == EnsureAsset(c1, genome, asset) IN
    IF CheckInsertData(data) = "TypeError" THEN Raise(c2, "TypeError")
    ELSE IF CheckInsertData(data) = "False" THEN Return(c2, "self")
    ELSE Return(WithAsset(c2, genome, asset,
                          Update(AssetOf(c2, genome, asset), data.val)), "self")

update_genomes(c, genome, data) ==
    IF CheckInsertName(genome) = "TypeError" THEN Raise(c, "TypeError")
    ELSE IF CheckInsertName(genome) = "False" THEN Return(c, "self")
    ELSE IF c.genomes_none THEN Raise(c, "AttributeError")
    ELSE LET c1 == EnsureGenome(c, genome, (CFG_ASSETS_KEY :> EmptyMap)) IN
    IF CheckInsertData(data) = "TypeError" THEN Raise(c1, "TypeError")
    ELSE IF CheckInsertData(data) = "False" THEN Return(c1, "self")
    ELSE Return(WithGenome(c1, genome, Update(c1.genomes[genome], data.val)), "self")

(***************************************************************************)
(* get_default_tag(genome, asset, use_existing)                            *)
(***************************************************************************)
\* (mutant) use_existing is not honoured: the constant is the fallback
get_default_tag_ConstantOnly(c, genome, asset, use_existing) ==
    IF AssertGatExists(c, genome, asset, None, FALSE) # ""
    THEN Return(c, DEFAULT_TAG)
    ELSE IF CFG_ASSET_DEFAULT_TAG_KEY \in DOMAIN AssetOf(c, genome, asset)
    THEN Return(c, AssetOf(c, genome, asset).default_tag)
    ELSE ReturnWarn(c, DEFAULT_TAG)

get_default_tag(c, genome, asset, use_existing) ==
    IF AssertGatExists(c, genome, asset, None, FALSE) # ""
    THEN Return(c, DEFAULT_TAG)
    ELSE IF CFG_ASSET_DEFAULT_TAG_KEY \in DOMAIN AssetOf(c, genome, asset)
    THEN Return(c, AssetOf(c, genome, asset).default_tag)
    ELSE IF ~use_existing THEN ReturnWarn(c, DEFAULT_TAG)
    ELSE IF ~HasTags(c, genome, asset) THEN Raise(c, "KeyError")
    ELSE IF Len(TagsOf(c, genome, asset)) = 0 THEN Raise(c, "IndexError")
    ELSE ReturnWarn(c, TagsOf(c, genome, asset)[1].name)

(***************************************************************************)
(* set_default_pointer(genome, asset, tag, force)                          *)
(***************************************************************************)
\* the condition under which the pointer is written
PointerIsFree(assetmap, force) ==
    \/ CFG_ASSET_DEFAULT_TAG_KEY \notin DOMAIN assetmap
    \/ assetmap.default_tag = ""
    \/ force

set_default_pointer(c, genome, asset, tag, force) ==
    IF AssertGatExists(c, genome, asset, None, FALSE) # ""
    THEN Raise(c, AssertGatExists(c, genome, asset, None, FALSE))
    ELSE IF PointerIsFree(AssetOf(c, genome, asset), force)
    THEN Return(update_assets(c, genome, asset,
                              MapData(CFG_ASSET_DEFAULT_TAG_KEY :> tag)).cfg, None)
    ELSE Return(c, None)

(***************************************************************************)
(* remove_assets(genome, asset, tag)                                       *)
(***************************************************************************)
\* _del_if_empty(asset mapping, "tags", [assets, asset]) and
\* _del_if_empty(assets, asset)
DropEmptyAsset(c, g, a) ==
    LET c1 == IF CFG_ASSET_TAGS_KEY \in DOMAIN AssetOf(c, g, a)
                 /\ Len(TagsOf(c, g, a)) = 0
              THEN WithGenome(c, g, Put(c.genomes[g], CFG_ASSETS_KEY,
                                        Del(c.genomes[g].assets, a)))
              ELSE c
    IN  IF a \in DOMAIN c1.genomes[g].assets
           /\ DOMAIN c1.genomes[g].assets[a] = {}
        THEN WithGenome(c1, g, Put(c1.genomes[g], CFG_ASSETS_KEY,
                                   Del(c1.genomes[g].assets, a)))
        ELSE c1

\* (mutant) a genome left without assets is kept
DropEmptyGenome_Keeps(c, g) == c

\* _del_if_empty(genome mapping, "assets", [genomes, genome]) and
\* _del_if_empty(genomes, genome)
DropEmptyGenome(c, g) ==
    LET c1 == IF CFG_ASSETS_KEY \in DOMAIN c.genomes[g]
                 /\ DOMAIN c.genomes[g].assets = {}
              THEN [c EXCEPT !.genomes = Del(@, g)]
              ELSE c
    IN  IF g \in DOMAIN c1.genomes /\ DOMAIN c1.genomes[g] = {}
        THEN [c1 EXCEPT !.genomes = Del(@, g)]
        ELSE c1

\* (mutant) the default pointer is never deleted
DropDefaultPointer_Never(c, g, a, tag) == c

\* the try/except/else that deletes the default pointer of a surviving asset
DropDefaultPointer(c, g, a, tag) ==
    IF HasAsset(c, g, a)
       /\ CFG_ASSET_DEFAULT_TAG_KEY \in DOMAIN AssetOf(c, g, a)
       /\ AssetOf(c, g, a).default_tag = tag
    THEN WithAsset(c, g, a, Del(AssetOf(c, g, a), CFG_ASSET_DEFAULT_TAG_KEY))
    ELSE c

\* self[CFG_GENOMES_KEY] = None once the genomes mapping is empty
CollapseGenomes(c) ==
    IF DOMAIN c.genomes = {} THEN [c EXCEPT !.genomes_none = TRUE] ELSE c

\* the tag that "tag or self.get_default_tag(genome, asset)" names
ResolveTag(c, genome, asset, tag) ==
    IF tag # None THEN Return(c, tag) ELSE get_default_tag(c, genome, asset, TRUE)

remove_assets(c, genome, asset, tag) ==
    LET rt == ResolveTag(c, genome, asset, tag) IN
    IF rt.exc # "" THEN Raise(c, rt.exc)
    ELSE IF CheckInsertName(genome) = "TypeError" THEN Raise(c, "TypeError")
    ELSE IF CheckInsertName(genome) = "False" THEN Return(c, "self")
    ELSE IF CheckInsertName(asset) = "TypeError" THEN Raise(c, "TypeError")
    ELSE IF CheckInsertName(asset) = "False" THEN Return(c, "self")
    ELSE IF CheckInsertName(rt.ret) = "TypeError" THEN Raise(c, "TypeError")
    ELSE IF c.genomes_none THEN Raise(c, "TypeError")
    ELSE IF ~HasTag(c, genome, asset, rt.ret) THEN Raise(c, "KeyError")
    ELSE LET c1 == WithAsset(c, genome, asset,
                             Put(AssetOf(c, genome, asset), CFG_ASSET_TAGS_KEY,
                                 ODel(TagsOf(c, genome, asset), rt.ret)))
             c2 == DropEmptyAsset(c1, genome, asset)
             c3 == DropEmptyGenome(c2, genome)
             c4 == DropDefaultPointer(c3, genome, asset, rt.ret)
         IN  Return(CollapseGenomes(c4), "self")

(***************************************************************************)
(* References between tags.  A reference is the string "item:tag", here    *)
(* the pair <<item, tag>>; a reference written with a namespace,           *)
(* "namespace/item:tag", is the triple <<namespace, item, tag>>.           *)
(***************************************************************************)
\* ubiquerg.parse_registry_path
prp(r) ==
    IF Len(r) = 3
    THEN [namespace |-> r[1], item |-> r[2], tag |-> r[3]]
    ELSE [namespace |-> None, item |-> r[1], tag |-> r[2]]
\* "{}:{}".format(item, tag)
FormatRef(item, tag) == <<item, tag>>
\* reference r names tag item:tag
Names(r, item, tag) == prp(r).item = item /\ prp(r).tag = tag

\* the set of elements of a list
Range(s) == {s[i] : i \in DOMAIN s}
\* all orders in which the elements of a finite set can be listed
Orders(S) ==
    {q \in [1..Cardinality(S) -> S] : \A i, j \in 1..Cardinality(S) : q[i] = q[j] => i = j}
\* _extend_unique(l1, l2) = l1 + list(set(l2) - set(l1)): the order in which
\* the new elements are appended is the iteration order of a set
ExtendUnique(l1, l2) == {l1 \o q : q \in Orders(Range(l2) \ Range(l1))}

(***************************************************************************)
(* update_relatives_assets(genome, asset, tag, data, children): the set of *)
(* results it can have, data being a list.                                 *)
(***************************************************************************)
\* (mutant) the two lists are taken for one another
RelationshipKey_Swapped(children) ==
    IF children THEN CFG_ASSET_PARENTS_KEY ELSE CFG_ASSET_CHILDREN_KEY

RelationshipKey(children) ==
    IF children THEN CFG_ASSET_CHILDREN_KEY ELSE CFG_ASSET_PARENTS_KEY

update_relatives_assets(c, genome, asset, tag, data, children) ==
    LET rt == ResolveTag(c, genome, asset, tag)
        r1 == update_tags(c, genome, asset, rt.ret, NoData)
        old == SetDefault(TagOf(r1.cfg, genome, asset, rt.ret),
                          RelationshipKey(children), <<>>)
    IN  IF rt.exc # "" THEN {Raise(c, rt.exc)}
        ELSE IF r1.exc # "" THEN {r1}
        ELSE {Return(WithTag(r1.cfg, genome, asset, rt.ret,
                             Put(old, RelationshipKey(children), l)), None)
              : l \in ExtendUnique(old[RelationshipKey(children)], data)}

(***************************************************************************)
(* _update_relatives_tags(genome, asset, tag, new_tag, relatives,          *)
(*                        update_children)                                 *)
(***************************************************************************)
\* (mutant) the entry is re-formatted but the old tag is never replaced
UpdatedRelative_NoRename(relative, asset, tag, new_tag) ==
    FormatRef(prp(relative).item, prp(relative).tag)

\* one entry of a relative's list, re-formatted as the inner loop does
UpdatedRelative(relative, asset, tag, new_tag) ==
    IF prp(relative).item = asset /\ prp(relative).tag = tag
    THEN FormatRef(asset, new_tag)
    ELSE FormatRef(prp(relative).item, prp(relative).tag)

\* (mutant) the new name is appended and the old entries are kept
UpdatedRelatives_KeepsOld(tagmap, relative_key, asset, tag, new_tag) ==
    IF relative_key \in DOMAIN tagmap
    THEN tagmap[relative_key] \o
         [i \in 1..Len(SelectSeq(tagmap[relative_key], LAMBDA r : Names(r, asset, tag))) |->
             FormatRef(asset, new_tag)]
    ELSE <<>>

\* (mutant) the renamed entries are moved behind the others
UpdatedRelatives_MovesRenamed(tagmap, relative_key, asset, tag, new_tag) ==
    IF relative_key \in DOMAIN tagmap
    THEN SelectSeq(tagmap[relative_key], LAMBDA r : ~Names(r, asset, tag)) \o
         [i \in 1..Len(SelectSeq(tagmap[relative_key], LAMBDA r : Names(r, asset, tag))) |->
             FormatRef(asset, new_tag)]
    ELSE <<>>

\* the list that replaces the one under relative_key (lines 419-434)
UpdatedRelatives(tagmap, relative_key, asset, tag, new_tag) ==
    IF relative_key \in DOMAIN tagmap
    THEN [i \in 1..Len(tagmap[relative_key]) |->
             UpdatedRelative(tagmap[relative_key][i], asset, tag, new_tag)]
    ELSE <<>>

\* (mutant) a relative that does not exist is not skipped: its entry is made
UpdateRelative_CreatesMissing(c, genome, asset, tag, new_tag, r, update_children) ==
    LET item == prp(r).item
        rtag == prp(r).tag
        key == RelationshipKey(update_children)
        c0 == IF HasTag(c, genome, item, rtag) THEN c
              ELSE update_tags(c, genome, item, rtag, NoData).cfg
        updated == UpdatedRelatives(TagOf(c0, genome, item, rtag), key, asset, tag, new_tag)
        c1 == (CHOOSE x \in update_relatives_assets(c0, genome, item, rtag,
                                                    updated, update_children) : TRUE).cfg
    IN  WithTag(c1, genome, item, rtag, Put(TagOf(c1, genome, item, rtag), key, updated))

\* the body of the loop for one relative r
UpdateRelative(c, genome, asset, tag, new_tag, r, update_children) ==
    LET item == prp(r).item
        rtag == prp(r).tag
        key == RelationshipKey(update_children)
    IN  IF ~HasTag(c, genome, item, rtag) THEN c
        ELSE LET updated == UpdatedRelatives(TagOf(c, genome, item, rtag), key,
                                             asset, tag, new_tag)
                 \* every result of the call is overwritten at the same key
                 c1 == (CHOOSE x \in update_relatives_assets(c, genome, item, rtag,
                                                             updated, update_children)
                                  : TRUE).cfg
             IN  WithTag(c1, genome, item, rtag,
                         Put(TagOf(c1, genome, item, rtag), key, updated))

RECURSIVE UpdateRelativesTags(_, _, _, _, _, _, _)
UpdateRelativesTags(c, genome, asset, tag, new_tag, relatives, update_children) ==
    IF relatives = <<>> THEN c
    ELSE UpdateRelativesTags(
             UpdateRelative(c, genome, asset, tag, new_tag, Head(relatives), update_children),
             genome, asset, tag, new_tag, Tail(relatives), update_children)

(***************************************************************************)
(* tag_asset(genome, asset, tag, new_tag); override and proceed are the    *)
(* answers query_yes_no gives if it is asked.                              *)
(***************************************************************************)
RelativesOf(tagmap, key) == IF key \in DOMAIN tagmap THEN tagmap[key] ELSE <<>>

\* lines 381-390: the relatives listed on the tag are updated, the children
\* first; both lists are read before either update
RelativesUpdated(c, genome, asset, tag, new_tag) ==
    IF \/ Len(RelativesOf(TagOf(c, genome, asset, tag), CFG_ASSET_CHILDREN_KEY)) > 0
       \/ Len(RelativesOf(TagOf(c, genome, asset, tag), CFG_ASSET_PARENTS_KEY)) > 0
    THEN CHOOSE c1 \in
             {UpdateRelativesTags(c0, genome, asset, tag, new_tag,
                  RelativesOf(TagOf(c, genome, asset, tag), CFG_ASSET_PARENTS_KEY), TRUE) :
              c0 \in {UpdateRelativesTags(c, genome, asset, tag, new_tag,
                          RelativesOf(TagOf(c, genome, asset, tag),
                                      CFG_ASSET_CHILDREN_KEY), FALSE)}} : TRUE
    ELSE c
\* lines 391-392: the entry is bound to new_tag
Retagged(c, genome, asset, tag, new_tag) ==
    WithTag(c, genome, asset, new_tag, TagOf(c, genome, asset, tag))
\* lines 393-394: the default pointer follows the tag
Repointed(c, genome, asset, tag, new_tag) ==
    IF CFG_ASSET_DEFAULT_TAG_KEY \in DOMAIN AssetOf(c, genome, asset)
       /\ AssetOf(c, genome, asset).default_tag = tag
    THEN set_default_pointer(c, genome, asset, new_tag, TRUE).cfg
    ELSE c

\* (mutant) the old tag is not removed
Retag_KeepsOld(c, genome, asset, tag, new_tag) ==
    CHOOSE r \in
        {Return(c2, "True") :
         c2 \in {Retagged(c1, genome, asset, tag, new_tag) :
         c1 \in {RelativesUpdated(c, genome, asset, tag, new_tag)}}} : TRUE

\* lines 375-396: the relatives are updated, the entry is bound to new_tag,
\* the default pointer follows and the old tag is removed
Retag(c, genome, asset, tag, new_tag) ==
    CHOOSE r \in
        {IF r4.exc # "" THEN r4 ELSE Return(r4.cfg, "True") :
         r4 \in {remove_assets(c3, genome, asset, tag) :
         c3 \in {Repointed(c2, genome, asset, tag, new_tag) :
         c2 \in {Retagged(c1, genome, asset, tag, new_tag) :
         c1 \in {RelativesUpdated(c, genome, asset, tag, new_tag)}}}}} : TRUE

\* the questions asked up to the first and up to the second query_yes_no
OverrideQuestion(c, genome, asset, new_tag) ==
    IF OHas(TagsOf(c, genome, asset), new_tag) THEN <<"override">> ELSE <<>>
ProceedQuestion(c, genome, asset, tag) ==
    IF \/ Len(RelativesOf(TagOf(c, genome, asset, tag), CFG_ASSET_CHILDREN_KEY)) > 0
       \/ Len(RelativesOf(TagOf(c, genome, asset, tag), CFG_ASSET_PARENTS_KEY)) > 0
    THEN <<"proceed">> ELSE <<>>

\* (mutant) the parents are updated before the second question is asked
tag_asset_UpdatesBeforeAsking(c, genome, asset, tag, new_tag, override, proceed) ==
    IF AssertGatExists(c, genome, asset, tag, FALSE) # ""
    THEN Raise(c, AssertGatExists(c, genome, asset, tag, FALSE))
    ELSE IF tag = None
    THEN Raise(c, IF HasTags(c, genome, asset) THEN "ValueError" ELSE "KeyError")
    ELSE IF OverrideQuestion(c, genome, asset, new_tag) # <<>> /\ ~override
    THEN Asking(Return(c, None), OverrideQuestion(c, genome, asset, new_tag))
    ELSE IF ProceedQuestion(c, genome, asset, tag) # <<>> /\ ~proceed
    THEN Asking(Return(UpdateRelativesTags(c, genome, asset, tag, new_tag,
                           RelativesOf(TagOf(c, genome, asset, tag), CFG_ASSET_PARENTS_KEY),
                           TRUE), "False"),
                OverrideQuestion(c, genome, asset, new_tag)
                    \o ProceedQuestion(c, genome, asset, tag))
    ELSE Asking(Retag(c, genome, asset, tag, new_tag),
                OverrideQuestion(c, genome, asset, new_tag)
                    \o ProceedQuestion(c, genome, asset, tag))

\* tag_asset (lines 347-396); override and proceed are the answers the user
\* gives to the questions that are asked
tag_asset(c, genome, asset, tag, new_tag, override, proceed) ==
    IF AssertGatExists(c, genome, asset, tag, FALSE) # ""
    THEN Raise(c, AssertGatExists(c, genome, asset, tag, FALSE))
    ELSE IF tag = None
    THEN Raise(c, IF HasTags(c, genome, asset) THEN "ValueError" ELSE "KeyError")
    ELSE IF OverrideQuestion(c, genome, asset, new_tag) # <<>> /\ ~override
    THEN Asking(Return(c, None), OverrideQuestion(c, genome, asset, new_tag))
    ELSE IF ProceedQuestion(c, genome, asset, tag) # <<>> /\ ~proceed
    THEN Asking(Return(c, "False"), OverrideQuestion(c, genome, asset, new_tag)
                                        \o ProceedQuestion(c, genome, asset, tag))
    ELSE Asking(Retag(c, genome, asset, tag, new_tag),
                OverrideQuestion(c, genome, asset, new_tag)
                    \o ProceedQuestion(c, genome, asset, tag))

\* whether a call of tag_asset asks each of the two questions
AsksOverride(c, genome, asset, tag, new_tag) ==
    "override" \in Range(tag_asset(c, genome, asset, tag, new_tag, TRUE, TRUE).asked)
AsksProceed(c, genome, asset, tag, new_tag) ==
    "proceed" \in Range(tag_asset(c, genome, asset, tag, new_tag, TRUE, TRUE).asked)

(***************************************************************************)
(* Paths.  A path string is the record of what os.path reads in it:        *)
(* whether it starts with the separator, its components, whether it ends   *)
(* with the separator, and the archive extension added to it.              *)
(***************************************************************************)
Path(abs, parts, trail) == [abs |-> abs, parts |-> parts, trail |-> trail, ext |-> ""]
\* the empty string
EmptyPath == Path(FALSE, <<>>, FALSE)
\* the path strings of the model; any other string is one relative component
PathOf(s) ==
    IF s = "" THEN EmptyPath
    ELSE IF s = "/data/a" THEN Path(TRUE, <<"data", "a">>, FALSE)
    ELSE IF s = "/genomes" THEN Path(TRUE, <<"genomes">>, FALSE)
    ELSE Path(FALSE, <<s>>, FALSE)
\* os.path.join(p, q): an absolute q replaces p; otherwise q is added after a
\* separator, so that joining the empty string leaves a trailing separator
Join(p, q) ==
    IF q.abs THEN q
    ELSE IF p = EmptyPath THEN q
    ELSE [abs |-> p.abs, parts |-> p.parts \o q.parts,
          trail |-> IF q = EmptyPath THEN TRUE ELSE q.trail, ext |-> q.ext]
\* os.path.isabs(p)
IsAbs(p) == p.abs
\* base + ext
WithExt(p, e) == [p EXCEPT !.ext = e]

(***************************************************************************)
(* _genome_asset_path(genomes, gname, aname, tname, seek_key,              *)
(*                    enclosing_dir)                                       *)
(***************************************************************************)
\* os.path.join(asset_tag_data[CFG_ASSET_PATH_KEY], tname)
TagDir(tagmap, tname) == Join(PathOf(tagmap[CFG_ASSET_PATH_KEY]), PathOf(tname))

\* (mutant) "." is appended like any other fragment
Appendix_KeepsDot(seek_key_value) == seek_key_value
\* appendix = "" if seek_key_value == "." else seek_key_value
Appendix(seek_key_value) == IF seek_key_value = "." THEN "" ELSE seek_key_value

\* (mutant) the asset name is never tried as the seek key
DefaultSeekKey_Never(tagmap, aname, seek_key) == seek_key
\* the seek key looked up: the one given, else the asset name if it is a
\* seek key of the tag, else None
DefaultSeekKey(tagmap, aname, seek_key) ==
    IF seek_key # None THEN seek_key
    ELSE IF aname \in DOMAIN tagmap[CFG_SEEK_KEYS_KEY] THEN aname
    ELSE None

\* the try block of lines 885-891
SeekPath(c, tagmap, tname, seek_key) ==
    IF seek_key \notin DOMAIN tagmap[CFG_SEEK_KEYS_KEY]
       \/ CFG_ASSET_PATH_KEY \notin DOMAIN tagmap
    THEN Raise(c, "MissingSeekKeyError")
    ELSE Return(c, Join(TagDir(tagmap, tname),
                        PathOf(Appendix(tagmap[CFG_SEEK_KEYS_KEY][seek_key]))))

\* (mutant) enclosing_dir is looked at after the seek key
genome_asset_path_SeekFirst(c, gname, aname, tname, seek_key, enclosing_dir) ==
    IF AssertGatExists(c, gname, aname, tname, FALSE) # ""
    THEN Raise(c, AssertGatExists(c, gname, aname, tname, FALSE))
    ELSE IF DefaultSeekKey(TagOf(c, gname, aname, tname), aname, seek_key) # None
    THEN SeekPath(c, TagOf(c, gname, aname, tname), tname,
                  DefaultSeekKey(TagOf(c, gname, aname, tname), aname, seek_key))
    ELSE IF CFG_ASSET_PATH_KEY \notin DOMAIN TagOf(c, gname, aname, tname)
    THEN Raise(c, "KeyError")
    ELSE Return(c, TagDir(TagOf(c, gname, aname, tname), tname))

genome_asset_path(c, gname, aname, tname, seek_key, enclosing_dir) ==
    IF AssertGatExists(c, gname, aname, tname, FALSE) # ""
    THEN Raise(c, AssertGatExists(c, gname, aname, tname, FALSE))
    ELSE IF (enclosing_dir
             \/ DefaultSeekKey(TagOf(c, gname, aname, tname), aname, seek_key) = None)
    THEN IF CFG_ASSET_PATH_KEY \notin DOMAIN TagOf(c, gname, aname, tname)
         THEN Raise(c, "KeyError")
         ELSE Return(c, TagDir(TagOf(c, gname, aname, tname), tname))
    ELSE SeekPath(c, TagOf(c, gname, aname, tname), tname,
                  DefaultSeekKey(TagOf(c, gname, aname, tname), aname, seek_key))

(***************************************************************************)
(* get_asset(genome_name, asset_name, tag_name, seek_key, strict_exists,   *)
(*           check_exist, enclosing_dir)                                   *)
(***************************************************************************)
\* self[CFG_FOLDER_KEY]
GenomeFolder == PathOf("/genomes")
\* an existence check: a one-argument function that is true of the archive
\* variants, of the paths under the genome folder, of the other absolute
\* paths or of the relative paths it is asked about (NotCallable is an
\* argument that is no such function)
NotCallable == [callable |-> FALSE, variants |-> FALSE, rooted |-> FALSE,
                elsewhere |-> FALSE, relative |-> FALSE]
Exists(check_exist, p) ==
    IF p.ext # "" THEN check_exist.variants
    ELSE IF ~p.abs THEN check_exist.relative
    ELSE IF Len(p.parts) > 0 /\ p.parts[1] = GenomeFolder.parts[1]
    THEN check_exist.rooted
    ELSE check_exist.elsewhere
\* os.path.join(self[CFG_FOLDER_KEY], genome_name, path)
FullPath(genome_name, path) == Join(Join(GenomeFolder, PathOf(genome_name)), path)
\* the paths of the loop of lines 219-223 that exist
Extant(check_exist, genome_name, path) ==
    {pp \in {WithExt(base, ext) : base \in {path, FullPath(genome_name, path)},
                                  ext \in {".tar.gz", ".tar"}} : Exists(check_exist, pp)}

\* (mutant) an archive that exists is returned in place of the path
Unresolved_ReturnsArchive(c, strict_exists, check_exist, genome_name, path, warned) ==
    IF Extant(check_exist, genome_name, path) # {}
    THEN Return(c, WithExt(path, ".tar.gz"))
    ELSE IF strict_exists = "True" THEN Raise(c, "IOError")
    ELSE ReturnWarn(c, path)
\* lines 216-230: neither path exists and strict_exists is not None
Unresolved(c, strict_exists, check_exist, genome_name, path, warned) ==
    IF strict_exists = "True" THEN Raise(c, "IOError")
    ELSE ReturnWarn(c, path)

\* lines 207-230, path being the path computed
Located(c, strict_exists, check_exist, genome_name, path, warned) ==
    IF IsAbs(path) /\ Exists(check_exist, path)
    THEN [Return(c, path) EXCEPT !.warn = warned]
    ELSE IF Exists(check_exist, FullPath(genome_name, path))
    THEN [Return(c, FullPath(genome_name, path)) EXCEPT !.warn = warned]
    ELSE IF strict_exists = None
    THEN [Return(c, path) EXCEPT !.warn = warned]
    ELSE Unresolved(c, strict_exists, check_exist, genome_name, path, warned)

get_asset(c, genome_name, asset_name, tag_name, seek_key, strict_exists, check_exist, enclosing_dir) ==
    CHOOSE r \in
        {IF rt.exc # "" THEN Raise(c, rt.exc)
         ELSE IF ~check_exist.callable THEN Raise(c, "TypeError")
         ELSE CHOOSE r2 \in
             {IF rp.exc # "" THEN rp
              ELSE Located(c, strict_exists, check_exist, genome_name, rp.ret, rt.warn) :
              rp \in {genome_asset_path(c, genome_name, asset_name, rt.ret, seek_key,
                                        enclosing_dir)}} : TRUE :
         rt \in {ResolveTag(c, genome_name, asset_name, tag_name)}} : TRUE

(***************************************************************************)
(* update_seek_keys(genome, asset, tag, keys)                              *)
(***************************************************************************)
update_seek_keys(c, genome, asset, tag, keys) ==
    CHOOSE r \in
        {IF rt.exc # "" THEN Raise(c, rt.exc)
         ELSE IF CheckInsertData(keys) = "TypeError" THEN Raise(c, "TypeError")
         ELSE IF CheckInsertData(keys) = "False" THEN Return(c, "self")
         ELSE CHOOSE r2 \in
             {IF r1.exc # "" THEN r1
              ELSE Return(WithTag(r1.cfg, genome, asset, rt.ret,
                       Put(TagOf(r1.cfg, genome, asset, rt.ret), CFG_SEEK_KEYS_KEY,
                           Update(SetDefault(TagOf(r1.cfg, genome, asset, rt.ret),
                                             CFG_SEEK_KEYS_KEY, EmptyMap)[CFG_SEEK_KEYS_KEY],
                                  keys.val))), "self") :
              r1 \in {update_tags(c, genome, asset, rt.ret, NoData)}} : TRUE :
         rt \in {ResolveTag(c, genome, asset, tag)}} : TRUE

(***************************************************************************)
(* The state: one RefGenConf object and the calls made on it.              *)
(***************************************************************************)
VARIABLES
    rgc,    \* the configuration held by the object
    pre,    \* the configuration before the last call
    last,   \* the last call: its arguments and its outcome
    trip,   \* a retag and its inverse: the stage reached and the configuration
            \* before the first of the two
    steps,  \* the number of calls made
    pull    \* the pull_asset call in progress: where it is and what it has seen

vars == <<rgc, pre, last, trip, steps, pull>>

NoCall ==
    [op |-> "init", genome |-> None, asset |-> None, tag |-> None, new_tag |-> None,
     force |-> FALSE, use_existing |-> FALSE, data |-> NoData, relatives |-> <<>>,
     children |-> FALSE, override |-> TRUE, proceed |-> TRUE,
     seek_key |-> None, strict_exists |-> "True", check_exist |-> NotCallable,
     enclosing_dir |-> FALSE, path |-> EmptyPath,
     exc |-> "", ret |-> None, warn |-> FALSE, asked |-> <<>>]

\* the arguments the calls are made with.  No method reads or writes a genome
\* other than the one it is called with, so the calls name one genome and the
\* other one is present, or not, from the start.
GenomeArgs == {"g1"}
SeekKeys == ("a" :> "a.fa")
TagData1 == (CFG_SEEK_KEYS_KEY :> SeekKeys)
TagData2 == (CFG_ASSET_PATH_KEY :> "a") @@ (CFG_ASSET_CHECKSUM_KEY :> "d1")
TagDataArgs == {NoData, MapData(TagData1), MapData(TagData2)}
AssetDataArgs == {NoData, MapData("asset_description" :> "text")}
GenomeDataArgs == {NoData, MapData("genome_description" :> "text")}
RefArgs ==
    {FormatRef("a", DEFAULT_TAG), FormatRef("b", DEFAULT_TAG), FormatRef("a", "t1"),
     <<"g1", "a", DEFAULT_TAG>>}
RelativesArgs == {<<r>> : r \in RefArgs}

\* configurations written by earlier sessions.  SeedGraph: two complete tags,
\* a:default built from b:default, the edge recorded on both ends.
CompleteTag(path, digest) ==
    MapData((CFG_SEEK_KEYS_KEY :> SeekKeys) @@ (CFG_ASSET_PATH_KEY :> path)
            @@ (CFG_ASSET_CHECKSUM_KEY :> digest))
OneOf(results) == (CHOOSE x \in results : TRUE).cfg
Seed1(c, g) == update_tags(c, g, "a", DEFAULT_TAG, CompleteTag("a", "d1")).cfg
Seed2(c, g) == update_tags(Seed1(c, g), g, "b", DEFAULT_TAG, CompleteTag("b", "d2")).cfg
Seed3(c, g) == OneOf(update_relatives_assets(Seed2(c, g), g, "a", DEFAULT_TAG,
                                             <<FormatRef("b", DEFAULT_TAG)>>, FALSE))
Seed4(c, g) == OneOf(update_relatives_assets(Seed3(c, g), g, "b", DEFAULT_TAG,
                                             <<FormatRef("a", DEFAULT_TAG)>>, TRUE))
SeedGraph(c, g) ==
    set_default_pointer(set_default_pointer(Seed4(c, g), g, "a", DEFAULT_TAG, FALSE).cfg,
                        g, "b", DEFAULT_TAG, FALSE).cfg
SeedOther == set_default_pointer(Seed1(EmptyCfg, "g2"), "g2", "a", DEFAULT_TAG, FALSE).cfg

\* SeedRemoved: a:t1 was built from b:default as well and then removed;
\* remove_assets left its reference in the child list of b:default
Seed5(c, g) == update_tags(SeedGraph(c, g), g, "a", "t1", CompleteTag("a", "d3")).cfg
Seed6(c, g) == OneOf(update_relatives_assets(Seed5(c, g), g, "b", DEFAULT_TAG,
                                             <<FormatRef("a", "t1")>>, TRUE))
Seed7(c, g) == OneOf(update_relatives_assets(Seed6(c, g), g, "a", "t1",
                                             <<FormatRef("b", DEFAULT_TAG)>>, FALSE))
SeedRemoved(c, g) == remove_assets(Seed7(c, g), g, "a", "t1").cfg

\* SeedCollapsed: the only tag of the only asset of the only genome was
\* removed, and remove_assets left self[CFG_GENOMES_KEY] = None
SeedCollapsed == remove_assets(Seed1(EmptyCfg, "g1"), "g1", "a", DEFAULT_TAG).cfg

InitCfgs ==
    {EmptyCfg, SeedOther, SeedGraph(SeedOther, "g1"), SeedRemoved(EmptyCfg, "g1"),
     SeedCollapsed}

\* the retag round trip.  A tag_asset that returns True for a new_tag that is
\* another name and not yet a tag of the asset starts one (stage 1); the
\* tag_asset that names the same tags the other way round and returns True,
\* made next, completes it (stage 2); any other call ends it.
NoTrip == [stage |-> 0, cfg |-> EmptyCfg]
FreshRetag(call, r) ==
    /\ call.op = "tag_asset" /\ r.exc = "" /\ r.ret = "True"
    /\ call.new_tag # call.tag
    /\ ~HasTag(rgc, call.genome, call.asset, call.new_tag)
Inverse(call) ==
    /\ last.op = "tag_asset"
    /\ call.genome = last.genome /\ call.asset = last.asset
    /\ call.tag = last.new_tag /\ call.new_tag = last.tag
NextTrip(call, r) ==
    IF FreshRetag(call, r) /\ trip.stage = 1 /\ Inverse(call)
    THEN [stage |-> 2, cfg |-> trip.cfg]
    ELSE IF FreshRetag(call, r) THEN [stage |-> 1, cfg |-> rgc]
    ELSE NoTrip

\* no pull_asset call was made yet
NoPull ==
    [pc |-> "idle", genome |-> None, asset |-> None, tag |-> None, force |-> None,
     unpack |-> TRUE, unbound |-> FALSE, has_parents |-> TRUE, declared |-> <<>>, parents |-> <<>>,
     check |-> [name |-> <<>>, remote |-> None, cfg |-> EmptyCfg, exc |-> "",
               count |-> 0], entered |-> <<>>, asked |-> <<>>, requests |-> <<>>,
     existed |-> FALSE, answer |-> "", tag_dir |-> "", size |-> [tenths |-> 0, unit |-> ""],
     downloading |-> FALSE, failure |-> "", archive |-> "none", scratch |-> "none",
     old_checksum |-> None, new_checksum |-> None, recorded |-> FALSE,
     wrote |-> FALSE,
     handler |-> "default", interrupted |-> "", by |-> ""]

Init ==
    /\ rgc \in InitCfgs
    /\ pre = rgc
    /\ last = NoCall
    /\ trip = NoTrip
    /\ steps = 0
    /\ pull = NoPull

\* a call was made: r is its result, call its record
Called(call, r) ==
    /\ steps' = steps + 1
    /\ pre' = rgc
    /\ rgc' = r.cfg
    /\ last' = [call EXCEPT !.exc = r.exc, !.ret = r.ret, !.warn = r.warn,
                            !.asked = r.asked]
    /\ trip' = NextTrip(call, r)
    /\ pull' = pull

UpdateTags ==
    /\ steps < MaxSteps
    /\ \E g \in GenomeArgs, a \in AssetNames \cup {None}, t \in TagNames \cup {None},
       d \in TagDataArgs :
        /\ a = None => t = None /\ d = NoData
        /\ t = None => d \in {NoData, MapData(TagData2)}
        /\ \E r \in {update_tags(rgc, g, a, t, d)} :
               Called([NoCall EXCEPT !.op = "update_tags", !.genome = g, !.asset = a,
                                     !.tag = t, !.data = d], r)

UpdateAssets ==
    /\ steps < MaxSteps
    /\ \E g \in GenomeArgs, a \in AssetNames \cup {None}, d \in AssetDataArgs :
        /\ a = None => d = NoData
        /\ \E r \in {update_assets(rgc, g, a, d)} :
               Called([NoCall EXCEPT !.op = "update_assets", !.genome = g, !.asset = a,
                                     !.data = d], r)

UpdateGenomes ==
    /\ steps < MaxSteps
    /\ \E g \in GenomeArgs, d \in GenomeDataArgs :
        \E r \in {update_genomes(rgc, g, d)} :
            Called([NoCall EXCEPT !.op = "update_genomes", !.genome = g, !.data = d], r)

GetDefaultTag ==
    /\ steps < MaxSteps
    /\ \E g \in GenomeArgs, a \in AssetNames, u \in BOOLEAN :
        \E r \in {get_default_tag(rgc, g, a, u)} :
            Called([NoCall EXCEPT !.op = "get_default_tag", !.genome = g, !.asset = a,
                                  !.use_existing = u], r)

SetDefaultPointer ==
    /\ steps < MaxSteps
    /\ \E g \in GenomeArgs, a \in AssetNames, t \in TagNames \cup {""}, f \in BOOLEAN :
        \E r \in {set_default_pointer(rgc, g, a, t, f)} :
            Called([NoCall EXCEPT !.op = "set_default_pointer", !.genome = g, !.asset = a,
                                  !.tag = t, !.force = f], r)

RemoveAssets ==
    /\ steps < MaxSteps
    /\ \E g \in GenomeArgs, a \in AssetNames, t \in TagNames \cup {None} :
        \E r \in {remove_assets(rgc, g, a, t)} :
            Called([NoCall EXCEPT !.op = "remove_assets", !.genome = g, !.asset = a,
                                  !.tag = t], r)

UpdateRelativesAssets ==
    /\ steps < MaxSteps
    /\ \E g \in GenomeArgs, a \in AssetNames, t \in TagNames, d \in RelativesArgs,
       ch \in BOOLEAN :
        \E r \in update_relatives_assets(rgc, g, a, t, d, ch) :
            Called([NoCall EXCEPT !.op = "update_relatives_assets", !.genome = g,
                                  !.asset = a, !.tag = t, !.relatives = d, !.children = ch],
                   r)

TagAsset ==
    /\ steps < MaxSteps
    /\ \E g \in GenomeArgs, a \in AssetNames, t \in TagNames \cup {None}, n \in TagNames,
       override \in BOOLEAN, proceed \in BOOLEAN :
        \* an answer is given only to a question that is asked
        /\ ~override => AsksOverride(rgc, g, a, t, n)
        /\ ~proceed => override /\ AsksProceed(rgc, g, a, t, n)
        /\ \E r \in {tag_asset(rgc, g, a, t, n, override, proceed)} :
               Called([NoCall EXCEPT !.op = "tag_asset", !.genome = g, !.asset = a,
                                     !.tag = t, !.new_tag = n, !.override = override,
                                     !.proceed = proceed], r)

Next ==
    \/ UpdateTags
    \/ UpdateAssets
    \/ UpdateGenomes
    \/ GetDefaultTag
    \/ SetDefaultPointer
    \/ RemoveAssets
    \/ UpdateRelativesAssets
    \/ TagAsset

Spec == Init /\ [][Next]_vars

(***************************************************************************)
(* The asset graph under update_tags, remove_assets and tag_asset alone,   *)
(* on registries whose every edge is recorded on both of its ends; the     *)
(* calls of update_tags include those it rejects.                          *)
(***************************************************************************)
\* SeedChain: a:default built from b:default, and b:t1 from b:default and
\* a:default; every edge is in the parent list of the child and in the child
\* list of the parent
SeedChain ==
    OneOf(update_relatives_assets(
        OneOf(update_relatives_assets(
            OneOf(update_relatives_assets(
                OneOf(update_relatives_assets(
                    update_tags(SeedGraph(EmptyCfg, "g1"), "g1", "b", "t1",
                                CompleteTag("b", "d3")).cfg,
                    "g1", "b", "t1", <<FormatRef("b", DEFAULT_TAG)>>, FALSE)),
                "g1", "b", "t1", <<FormatRef("a", DEFAULT_TAG)>>, FALSE)),
            "g1", "b", DEFAULT_TAG, <<FormatRef("b", "t1")>>, TRUE)),
        "g1", "a", DEFAULT_TAG, <<FormatRef("b", "t1")>>, TRUE))

\* update_tags called with an argument of a type _check_insert_data rejects:
\* an asset or tag name that is no string, data that is no Mapping
UpdateTagsRejected ==
    /\ steps < MaxSteps
    /\ \E g \in GenomeArgs, a \in AssetNames \cup {NotAStr},
          t \in TagNames \cup {None, NotAStr}, d \in {NoData, BadData} :
        /\ (a = NotAStr) <=> (t = None)
        /\ (t \in TagNames) <=> (d = BadData)
        /\ \E r \in {update_tags(rgc, g, a, t, d)} :
               Called([NoCall EXCEPT !.op = "update_tags", !.genome = g, !.asset = a,
                                     !.tag = t, !.data = d], r)

InitGraph ==
    /\ rgc \in {EmptyCfg, SeedGraph(SeedOther, "g1"), Seed7(EmptyCfg, "g1"), SeedChain}
    /\ pre = rgc
    /\ last = NoCall
    /\ trip = NoTrip
    /\ steps = 0
    /\ pull = NoPull

NextGraph ==
    \/ UpdateTags
    \/ UpdateTagsRejected
    \/ RemoveAssets
    \/ TagAsset

SpecGraph == InitGraph /\ [][NextGraph]_vars

(***************************************************************************)
(* Lookups: the calls that resolve a path, made on registries whose tags   *)
(* differ in what they record.                                             *)
(***************************************************************************)
\* seek keys: the asset itself as the tag directory, and an index file
DotKeys == ("a" :> ".") @@ ("fai" :> "a.fa.fai")
SeekKeysArgs == {MapData("a" :> "."), MapData("fai" :> "a.fa.fai")}
SeekKeyArgs == {None, "a", "fai"}
StrictArgs == {"True", "False", None}
CheckExist(variants, rooted, elsewhere, relative) ==
    [callable |-> TRUE, variants |-> variants, rooted |-> rooted,
     elsewhere |-> elsewhere, relative |-> relative]
CheckExistArgs ==
    {NotCallable,
     CheckExist(FALSE, FALSE, FALSE, FALSE), CheckExist(TRUE, FALSE, FALSE, FALSE),
     CheckExist(FALSE, TRUE, FALSE, FALSE), CheckExist(FALSE, FALSE, TRUE, FALSE),
     CheckExist(FALSE, FALSE, FALSE, TRUE), CheckExist(TRUE, TRUE, TRUE, TRUE)}

\* SeedDot: a:default under an absolute path, "." among its seek keys, and
\* an asset b that has no tag
SeedDot ==
    update_assets(
        update_tags(EmptyCfg, "g1", "a", DEFAULT_TAG,
                    MapData((CFG_SEEK_KEYS_KEY :> DotKeys)
                            @@ (CFG_ASSET_PATH_KEY :> "/data/a"))).cfg,
        "g1", "b", NoData).cfg
\* SeedPulled: b:default with its path and digest and without seek keys,
\* a:default with seek keys and without a path
SeedPulled ==
    update_tags(update_tags(EmptyCfg, "g1", "b", DEFAULT_TAG, MapData(TagData2)).cfg,
                "g1", "a", DEFAULT_TAG, MapData(TagData1)).cfg

LookupCfgs ==
    {EmptyCfg, SeedCollapsed, SeedGraph(SeedOther, "g1"), SeedDot, SeedPulled}

InitLookup ==
    /\ rgc \in LookupCfgs
    /\ pre = rgc
    /\ last = NoCall
    /\ trip = NoTrip
    /\ steps = 0
    /\ pull = NoPull

UpdateSeekKeys ==
    /\ steps < MaxSteps
    /\ \E g \in GenomeArgs, a \in AssetNames, t \in {DEFAULT_TAG, None},
       k \in SeekKeysArgs :
        \E r \in {update_seek_keys(rgc, g, a, t, k)} :
            Called([NoCall EXCEPT !.op = "update_seek_keys", !.genome = g, !.asset = a,
                                  !.tag = t, !.data = k], r)

\* a lookup changes nothing: one made right after another is made in the
\* configuration of the first, so the lookups follow the updates
GenomeAssetPath ==
    /\ steps < MaxSteps
    /\ last.op \notin {"get_asset", "genome_asset_path"}
    /\ \E g \in GenomeArgs, a \in AssetNames, t \in TagNames, k \in SeekKeyArgs,
       e \in BOOLEAN :
        \E r \in {genome_asset_path(rgc, g, a, t, k, e)} :
            Called([NoCall EXCEPT !.op = "genome_asset_path", !.genome = g, !.asset = a,
                                  !.tag = t, !.seek_key = k, !.enclosing_dir = e,
                                  !.path = IF r.exc = "" THEN r.ret ELSE EmptyPath],
                   [r EXCEPT !.ret = None])

GetAsset ==
    /\ steps < MaxSteps
    /\ last.op \notin {"get_asset", "genome_asset_path"}
    /\ \E g \in GenomeArgs, a \in AssetNames, t \in TagNames \cup {None},
       k \in SeekKeyArgs, e \in BOOLEAN, strict \in StrictArgs, x \in CheckExistArgs :
        \E r \in {get_asset(rgc, g, a, t, k, strict, x, e)} :
            Called([NoCall EXCEPT !.op = "get_asset", !.genome = g, !.asset = a,
                                  !.tag = t, !.seek_key = k, !.enclosing_dir = e,
                                  !.strict_exists = strict, !.check_exist = x,
                                  !.path = IF r.exc = "" THEN r.ret ELSE EmptyPath],
                   [r EXCEPT !.ret = None])

NextLookup ==
    \/ UpdateSeekKeys
    \/ GenomeAssetPath
    \/ GetAsset

SpecLookup == InitLookup /\ [][NextLookup]_vars

(***************************************************************************)
(* _check_asset_digest and is_asset_complete                               *)
(***************************************************************************)
\* the attributes a tag needs to be complete
REQ_TAG_ATTRS == {CFG_SEEK_KEYS_KEY}

\* is_asset_complete: "KeyError" when the tag is not in the configuration,
\* "TypeError" when the genomes section is None
is_asset_complete(c, genome, asset, tag) ==
    IF c.genomes_none THEN "TypeError"
    ELSE IF ~HasTag(c, genome, asset, tag) THEN "KeyError"
    ELSE IF REQ_TAG_ATTRS \subseteq DOMAIN TagOf(c, genome, asset, tag) THEN "True"
    ELSE "False"

\* (mutant) an incomplete local tag is populated like a missing one
check_asset_digest_AdoptsIncomplete(c, genome, remote_asset_name, remote_digest) ==
    CHOOSE r \in
        {CHOOSE r1 \in
            {IF complete = "TypeError" THEN Raise(c, "TypeError")
             ELSE IF complete \in {"KeyError", "False"}
                     \/ AssertGatExists(c, genome, asset, tag, complete = "False")
                          \in {"MissingAssetError", "MissingGenomeError",
                               "MissingSeekKeyError"}
             THEN update_tags(c, genome, asset, tag,
                              MapData(CFG_ASSET_CHECKSUM_KEY :> remote_digest))
             ELSE IF CFG_ASSET_CHECKSUM_KEY \notin DOMAIN TagOf(c, genome, asset, tag)
             THEN Raise(c, "KeyError")
             ELSE IF remote_digest # TagOf(c, genome, asset, tag)[CFG_ASSET_CHECKSUM_KEY]
             THEN Raise(c, "RefgenconfError")
             ELSE Return(c, None) :
             complete \in {is_asset_complete(c, genome, asset, tag)}} : TRUE :
         asset \in {prp(remote_asset_name).item},
         tag \in {prp(remote_asset_name).tag}} : TRUE

\* _check_asset_digest, given the digest the server answered with
check_asset_digest(c, genome, remote_asset_name, remote_digest) ==
    CHOOSE r \in
        {CHOOSE r1 \in
            {IF complete = "TypeError" THEN Raise(c, "TypeError")
             ELSE IF complete = "KeyError"
                     \/ AssertGatExists(c, genome, asset, tag, complete = "False")
                          \in {"MissingAssetError", "MissingGenomeError",
                               "MissingSeekKeyError"}
             THEN update_tags(c, genome, asset, tag,
                              MapData(CFG_ASSET_CHECKSUM_KEY :> remote_digest))
             ELSE IF CFG_ASSET_CHECKSUM_KEY \notin DOMAIN TagOf(c, genome, asset, tag)
             THEN Raise(c, "KeyError")
             ELSE IF remote_digest # TagOf(c, genome, asset, tag)[CFG_ASSET_CHECKSUM_KEY]
             THEN Raise(c, "RefgenconfError")
             ELSE Return(c, None) :
             complete \in {is_asset_complete(c, genome, asset, tag)}} : TRUE :
         asset \in {prp(remote_asset_name).item},
         tag \in {prp(remote_asset_name).tag}} : TRUE

(***************************************************************************)
(* pull_asset: one call, a step at a time.  What the server, the file      *)
(* system and the user answer is drawn where the code asks for it.         *)
(***************************************************************************)
\* (mutant) 5 GB counts as large
is_large_archive_FromFive(size) ==
    size.unit = "TB" \/ (size.unit = "GB" /\ size.tenths >= 50)

\* _is_large_archive, for a size string written as a number of tenths and a unit
is_large_archive(size) ==
    size.unit = "TB" \/ (size.unit = "GB" /\ size.tenths > 50)

Unreachable == "DownloadJsonError"
ParentsArgs ==
    {<<>>, <<FormatRef("a", DEFAULT_TAG)>>, <<FormatRef("b", DEFAULT_TAG)>>,
     <<FormatRef("a", "t1"), FormatRef("b", DEFAULT_TAG)>>}
\* "4GB", "5GB", "6GB", "0.5TB", "900MB"
SizeArgs == {[tenths |-> 40, unit |-> "GB"], [tenths |-> 50, unit |-> "GB"],
             [tenths |-> 60, unit |-> "GB"], [tenths |-> 5, unit |-> "TB"],
             [tenths |-> 9000, unit |-> "MB"]}
\* the attributes of the archive that ATTRS_COPY_PULL names
ArchiveData(asset, parents) ==
    MapData((CFG_SEEK_KEYS_KEY :> SeekKeys) @@ (CFG_ASSET_PATH_KEY :> asset)
            @@ (CFG_ASSET_CHECKSUM_KEY :> "d1") @@ (CFG_ASSET_PARENTS_KEY :> parents))

\* configurations a pull starts from: SeedPulled holds b:default with a
\* digest and no seek keys, the entry an earlier pull of a child populated;
\* the last one has the default pointer of b set to the empty string
PullCfgs ==
    {EmptyCfg, SeedCollapsed, SeedGraph(SeedOther, "g1"), SeedPulled,
     set_default_pointer(SeedPulled, "g1", "b", "", TRUE).cfg}

InitPull ==
    /\ rgc \in PullCfgs
    /\ pre = rgc
    /\ last = NoCall
    /\ trip = NoTrip
    /\ steps = 0
    /\ pull = NoPull

\* the pull enters a state
Entering(p, state) == [p EXCEPT !.pc = state, !.entered = Append(@, state)]
\* a request is sent to the server
Asks(p, request) == [p EXCEPT !.requests = Append(@, request)]
\* the pull goes on as p, the configuration now c
Goes(p, c) ==
    /\ pull' = p
    /\ rgc' = c
    /\ UNCHANGED <<pre, last, trip, steps>>
\* the call ends: it raises exc, or returns ret when exc is ""
Ends(p, c, exc, ret) ==
    /\ pull' = [p EXCEPT !.pc = "done"]
    /\ rgc' = c
    /\ last' = [last EXCEPT !.exc = exc, !.ret = ret, !.asked = p.asked]
    /\ UNCHANGED <<pre, trip, steps>>

\* (mutant) the genome folder is not looked at before the requests are made
PullAsset_ChecksLater ==
    /\ steps < MaxPulls
    /\ pull.pc \in {"idle", "done"}
    /\ \E g \in GenomeArgs, a \in AssetNames, t \in {DEFAULT_TAG, None},
          force \in {"True", "False", None}, unpack \in BOOLEAN, unbound \in BOOLEAN :
        /\ unbound \/ ~unpack => a = "a" /\ t = None /\ force = None
        /\ steps' = steps + 1
        /\ pre' = rgc
        /\ rgc' = rgc
        /\ trip' = NoTrip
        /\ last' = [NoCall EXCEPT !.op = "pull_asset", !.genome = g, !.asset = a,
                                  !.tag = t,
                                  !.exc = ""]
        /\ pull' = Entering([NoPull EXCEPT !.genome = g, !.asset = a, !.tag = t,
                                            !.force = force, !.unpack = unpack,
                                            !.unbound = unbound,
                                            !.handler = pull.handler],
                             "ResolveTag")

\* lines 462-464: the call is made, the genome folder is expanded.  The
\* handler of SIGINT is the one the process has, whatever call installed it.
PullAsset ==
    /\ steps < MaxPulls
    /\ pull.pc \in {"idle", "done"}
    /\ \E g \in GenomeArgs, a \in AssetNames, t \in {DEFAULT_TAG, None},
          force \in {"True", "False", None}, unpack \in BOOLEAN, unbound \in BOOLEAN :
        /\ unbound \/ ~unpack => a = "a" /\ t = None /\ force = None
        /\ steps' = steps + 1
        /\ pre' = rgc
        /\ rgc' = rgc
        /\ trip' = NoTrip
        /\ last' = [NoCall EXCEPT !.op = "pull_asset", !.genome = g, !.asset = a,
                                  !.tag = t,
                                  !.exc = IF unbound
                                          THEN "UnboundEnvironmentVariablesError" ELSE ""]
        /\ pull' = IF unbound
                   THEN [NoPull EXCEPT !.pc = "done", !.genome = g, !.asset = a, !.tag = t,
                                       !.force = force, !.unpack = unpack,
                                       !.unbound = TRUE, !.handler = pull.handler]
                   ELSE Entering([NoPull EXCEPT !.genome = g, !.asset = a, !.tag = t,
                                                !.force = force, !.unpack = unpack,
                                                !.handler = pull.handler],
                                 "ResolveTag")

\* lines 469-477: the default tag and the archive's attributes are asked for.
\* No archive names the tag it holds among its parents.
PullResolveTag ==
    /\ pull.pc = "ResolveTag"
    /\ \E default_tag \in TagNames \cup {Unreachable},
          parents \in ParentsArgs, has_parents \in BOOLEAN, attrs \in {"", Unreachable} :
        /\ pull.tag # None => default_tag = DEFAULT_TAG
        /\ ~has_parents => parents = <<>>
        /\ attrs = Unreachable => has_parents /\ parents = <<>>
        /\ \A i \in DOMAIN parents :
               ~Names(parents[i], pull.asset, IF pull.tag = None THEN default_tag ELSE pull.tag)
        /\ \E asked \in {IF pull.tag = None THEN Asks(pull, "default_tag") ELSE pull} :
            IF pull.tag = None /\ default_tag = Unreachable
            THEN /\ has_parents /\ parents = <<>> /\ attrs = ""
                 /\ Ends(asked, rgc, "DownloadJsonError", None)
            ELSE IF ~pull.unpack
            THEN /\ has_parents /\ parents = <<>> /\ attrs = ""
                 /\ Ends(asked, rgc, "NotImplementedError", None)
            ELSE IF attrs = Unreachable
            THEN Ends(Asks(asked, "attrs"), rgc, "DownloadJsonError", None)
            ELSE Goes(Entering([Asks(asked, "attrs") EXCEPT
                                  !.tag = IF @ = None THEN default_tag ELSE @,
                                  !.has_parents = has_parents,
                                  !.declared = parents, !.parents = parents],
                               "CheckLocalExisting"), rgc)

\* (mutant) with force None the directory is replaced whatever the answer
LocalExisting_IgnoresAnswer(force, exists, answer) ==
    IF ~exists THEN "proceed"
    ELSE IF force = "False" THEN "preserve"
    ELSE "overwrite"

\* lines 489-505: what is done about the tag directory, answer being the
\* reply to "Replace existing?"
LocalExisting(force, exists, answer) ==
    IF ~exists THEN "proceed"
    ELSE IF force = "False" THEN "preserve"
    ELSE IF force = None /\ ~answer THEN "preserve"
    ELSE "overwrite"

\* lines 489-505: the tag directory is there or not, and force decides
PullCheckLocalExisting ==
    /\ pull.pc = "CheckLocalExisting"
    /\ \E exists \in BOOLEAN, answer \in BOOLEAN :
        /\ ~(exists /\ pull.force = None) => answer
        /\ \E p \in {[pull EXCEPT
                         !.existed = exists,
                         !.answer = IF exists /\ pull.force = None
                                    THEN (IF answer THEN "yes" ELSE "no") ELSE "",
                         !.asked = IF exists /\ pull.force = None
                                   THEN Append(@, "Replace existing") ELSE @]} :
            \E decision \in {LocalExisting(pull.force, exists, answer)} :
                IF decision = "proceed"
                THEN Goes(Entering([p EXCEPT !.tag_dir = "absent"], "CheckParentDigests"),
                          rgc)
                ELSE IF decision = "preserve"
                THEN Ends([p EXCEPT !.tag_dir = "kept"], rgc, "", "tag_dir")
                ELSE Goes(Entering([p EXCEPT !.tag_dir = "removed"],
                                   "CheckParentDigests"), rgc)

\* lines 507-509: one declared parent is checked, in the order declared
PullCheckParentDigests ==
    /\ pull.pc = "CheckParentDigests"
    /\ IF ~pull.has_parents THEN Ends(pull, rgc, "KeyError", None)
       ELSE IF pull.parents = <<>> THEN Goes(Entering(pull, "SizeConfirm"), rgc)
       ELSE \E remote_digest \in {"d1", "d2", Unreachable} :
               IF remote_digest = Unreachable
               THEN Ends(Asks(pull, "asset_digest"), rgc, "DownloadJsonError", None)
               ELSE \E r \in {check_asset_digest(rgc, pull.genome, Head(pull.parents),
                                                 remote_digest)} :
                       \E p \in {[Asks(pull, "asset_digest") EXCEPT
                                    !.parents = Tail(@),
                                    !.check = [name |-> Head(pull.parents),
                                               remote |-> remote_digest,
                                               cfg |-> rgc, exc |-> r.exc,
                                               count |-> @.count + 1]]} :
                           IF r.exc # "" THEN Ends(p, r.cfg, r.exc, None)
                           ELSE Goes(p, r.cfg)

\* lines 511-516: a large archive is confirmed
PullSizeConfirm ==
    /\ pull.pc = "SizeConfirm"
    /\ \E size \in SizeArgs, has_size \in BOOLEAN, answer \in BOOLEAN :
        /\ ~has_size => size.unit = "TB"
        /\ ~(has_size /\ is_large_archive(size)) => answer
        /\ IF ~has_size THEN Ends(pull, rgc, "KeyError", None)
           ELSE IF is_large_archive(size) /\ ~answer
           THEN Ends([pull EXCEPT !.size = size, !.asked = Append(@, "Are you sure")],
                     rgc, "", None)
           ELSE Goes(Entering([pull EXCEPT
                                 !.size = size,
                                 !.asked = IF is_large_archive(size)
                                           THEN Append(@, "Are you sure") ELSE @],
                              "Download"), rgc)

\* lines 518-526: the genome directory is made, the handler built for the
\* archive's path is installed for SIGINT, and the archive is asked for.
\* While the download runs the file is not opened yet or holds what arrived.
PullBeginDownload ==
    /\ pull.pc = "Download" /\ ~pull.downloading
    /\ \E archive \in {"none", "partial"} :
        Goes([Asks(pull, "archive") EXCEPT !.downloading = TRUE, !.handler = "download",
                                           !.archive = archive], rgc)

\* lines 526-540: the download ends.  HTTPError and a refused connection
\* arrive before the file is opened, ContentTooShortError after what was
\* received was written to it; an error of another class is not caught
\* and leaves the file as it was.
PullDownload ==
    /\ pull.pc = "Download" /\ pull.downloading
    /\ \E failure \in {"", "HTTPError", "ConnectionRefusedError", "ContentTooShortError",
                       "URLError"} :
        /\ failure \in {"HTTPError", "ConnectionRefusedError"} => pull.archive = "none"
        /\ \E p \in {[pull EXCEPT !.downloading = FALSE, !.failure = failure,
                                  !.archive = IF failure = "" THEN "staged"
                                              ELSE IF failure = "ContentTooShortError"
                                              THEN "partial" ELSE @]} :
            IF failure = "" THEN Goes(Entering(p, "VerifyChecksum"), rgc)
            ELSE IF failure = "URLError" THEN Ends(p, rgc, failure, None)
            ELSE Ends(p, rgc, "", None)

\* lines 542-548: the checksum of the archive against the declared one
PullVerifyChecksum ==
    /\ pull.pc = "VerifyChecksum"
    /\ \E old_checksum \in {None, "c1"}, new_checksum \in {"c1", "c2"} :
        /\ old_checksum = None => new_checksum = "c1"
        /\ \E p \in {[pull EXCEPT !.old_checksum = old_checksum,
                                  !.new_checksum = new_checksum]} :
            IF old_checksum # None /\ new_checksum # old_checksum
            THEN Ends(p, rgc, "", None)
            ELSE Goes(Entering(p, "Extract"), rgc)

\* lines 551-553: a scratch directory is made in the genome directory and
\* untar begins to unpack the archive into it
PullExtract ==
    /\ pull.pc = "Extract" /\ pull.scratch = "none"
    /\ Goes([pull EXCEPT !.scratch = "partial"], rgc)

\* lines 553-557: untar ends, and shutil.move takes the asset-named directory
\* to the tag directory <genome>/<asset>/<tag>.  move renames when it can;
\* when the rename fails (the directory <genome>/<asset>, which nothing in
\* the pull makes, is not there) it copies the tree to the tag directory,
\* file by file, and removes the source afterwards.  The directory of the
\* asset is there when the tag directory was (rmtree removes the tag's only).
PullMove ==
    /\ pull.pc = "Extract" /\ pull.scratch = "partial"
    /\ \E untarred \in BOOLEAN, asset_dir \in BOOLEAN :
        /\ pull.tag_dir = "removed" => asset_dir
        /\ ~untarred => asset_dir
        /\ IF ~untarred THEN Ends(pull, rgc, "ReadError", None)
           ELSE IF asset_dir
           THEN Goes([pull EXCEPT !.scratch = "emptied", !.tag_dir = "installed"], rgc)
           ELSE Goes([pull EXCEPT !.scratch = "unpacked", !.tag_dir = "partial"], rgc)

\* lines 557-560: a copy, if one runs, ends and its source is removed; the
\* scratch directory and the archive are removed
PullCleanup ==
    /\ pull.pc = "Extract" /\ pull.scratch \in {"unpacked", "emptied"}
    /\ Goes(Entering([pull EXCEPT !.tag_dir = "installed", !.scratch = "none",
                                  !.archive = "none"], "Commit"), rgc)

\* (mutant) the pulled tag is made the default over an existing one
PullCommit_ForcesDefault ==
    /\ pull.pc = "Commit" /\ ~pull.recorded
    /\ \E r1 \in {update_tags(rgc, pull.genome, pull.asset, pull.tag,
                              ArchiveData(pull.asset, pull.declared))} :
        IF r1.exc # "" THEN Ends(pull, r1.cfg, r1.exc, None)
        ELSE \E r2 \in {set_default_pointer(r1.cfg, pull.genome, pull.asset, pull.tag,
                                            TRUE)} :
                IF r2.exc # "" THEN Ends(pull, r2.cfg, r2.exc, None)
                ELSE Goes([pull EXCEPT !.recorded = TRUE], r2.cfg)

\* lines 561-562: the tag is recorded and made the default
PullCommit ==
    /\ pull.pc = "Commit" /\ ~pull.recorded
    /\ \E r1 \in {update_tags(rgc, pull.genome, pull.asset, pull.tag,
                              ArchiveData(pull.asset, pull.declared))} :
        IF r1.exc # "" THEN Ends(pull, r1.cfg, r1.exc, None)
        ELSE \E r2 \in {set_default_pointer(r1.cfg, pull.genome, pull.asset, pull.tag,
                                            FALSE)} :
                IF r2.exc # "" THEN Ends(pull, r2.cfg, r2.exc, None)
                ELSE Goes([pull EXCEPT !.recorded = TRUE], r2.cfg)

\* lines 563-564: the configuration is written to its file, the path returned
PullWrite ==
    /\ pull.pc = "Commit" /\ pull.recorded
    /\ Ends([pull EXCEPT !.wrote = TRUE], rgc, "", "asset_path")

\* (mutant) the handler leaves without removing the archive
Interrupt_KeepsArchive ==
    /\ pull.pc \notin {"idle", "exited"} /\ pull.interrupted = ""
    /\ \E p \in {[pull EXCEPT !.interrupted = pull.pc, !.by = pull.handler]} :
        IF pull.handler = "download"
        THEN /\ pull' = [p EXCEPT !.pc = "exited"]
             /\ last' = IF pull.pc = "done" THEN last
                        ELSE [last EXCEPT !.exc = "SystemExit", !.ret = None]
             /\ UNCHANGED <<rgc, pre, trip, steps>>
        ELSE IF pull.pc = "done" THEN Goes(p, rgc)
        ELSE Ends(p, rgc, "KeyboardInterrupt", None)

\* SIGINT arrives, once, during a pull or after it.  The handler of lines
\* 44-54 removes the archive if it is there and leaves with sys.exit(0);
\* without it the interpreter raises KeyboardInterrupt where the program is.
\* A call that has returned keeps its result.
Interrupt ==
    /\ pull.pc \notin {"idle", "exited"} /\ pull.interrupted = ""
    /\ \E p \in {[pull EXCEPT !.interrupted = pull.pc, !.by = pull.handler]} :
        IF pull.handler = "download"
        THEN /\ pull' = [p EXCEPT !.pc = "exited", !.archive = "none"]
             /\ last' = IF pull.pc = "done" THEN last
                        ELSE [last EXCEPT !.exc = "SystemExit", !.ret = None]
             /\ UNCHANGED <<rgc, pre, trip, steps>>
        ELSE IF pull.pc = "done" THEN Goes(p, rgc)
        ELSE Ends(p, rgc, "KeyboardInterrupt", None)

NextPull ==
    \/ PullAsset
    \/ PullResolveTag
    \/ PullCheckLocalExisting
    \/ PullCheckParentDigests
    \/ PullSizeConfirm
    \/ PullBeginDownload
    \/ PullDownload
    \/ PullVerifyChecksum
    \/ PullExtract
    \/ PullMove
    \/ PullCleanup
    \/ PullCommit
    \/ PullWrite
    \/ Interrupt

SpecPull == InitPull /\ [][NextPull]_vars

(***************************************************************************)
(* Vocabulary of the properties.                                           *)
(***************************************************************************)
\* the last call was a tag_asset that returned True
RetagDone == last.op = "tag_asset" /\ last.exc = "" /\ last.ret = "True"
\* the entry of the retagged tag before the call
OldEntry == TagOf(pre, last.genome, last.asset, last.tag)
\* list holds a reference to item:tag
Refers(list, item, tag) ==
    \E i \in DOMAIN list : prp(list[i]).item = item /\ prp(list[i]).tag = tag
\* the list under key of the tag that reference r names in genome g of c
ListAt(c, g, r, key) ==
    IF HasTag(c, g, prp(r).item, prp(r).tag)
    THEN RelativesOf(TagOf(c, g, prp(r).item, prp(r).tag), key)
    ELSE <<>>
\* relative r of the retagged tag lists the new name, and not the old one,
\* under key
Renamed(r, key) ==
    /\ Refers(ListAt(rgc, last.genome, r, key), last.asset, last.new_tag)
    /\ ~Refers(ListAt(rgc, last.genome, r, key), last.asset, last.tag)

\* relative r is another tag than the old and the new one, it existed before
\* the call and listed the old name under key
ListedOld(r, key) ==
    /\ ~Names(r, last.asset, last.tag)
    /\ ~Names(r, last.asset, last.new_tag)
    /\ Refers(ListAt(pre, last.genome, r, key), last.asset, last.tag)

\* C1 as stated: after a confirmed retag of T = asset:old to another name new,
\* every parent that T lists has asset:new and not asset:old in its child
\* list, and every child that T lists has asset:new and not asset:old in its
\* parent list.
C1_AsStated ==
    (RetagDone /\ last.new_tag # last.tag) =>
        /\ \A p \in Range(RelativesOf(OldEntry, CFG_ASSET_PARENTS_KEY)) :
               Renamed(p, CFG_ASSET_CHILDREN_KEY)
        /\ \A ch \in Range(RelativesOf(OldEntry, CFG_ASSET_CHILDREN_KEY)) :
               Renamed(ch, CFG_ASSET_PARENTS_KEY)

\* C1 amended: after a confirmed retag of T = asset:old to new # old, every
\* parent that T lists, that is an existing tag other than asset:old and
\* asset:new and had asset:old in its child list, has asset:new and not
\* asset:old in its child list; the same for every child and its parent list.
C1_RetagRenamesListedEdges ==
    (RetagDone /\ last.new_tag # last.tag) =>
        /\ \A p \in Range(RelativesOf(OldEntry, CFG_ASSET_PARENTS_KEY)) :
               ListedOld(p, CFG_ASSET_CHILDREN_KEY) => Renamed(p, CFG_ASSET_CHILDREN_KEY)
        /\ \A ch \in Range(RelativesOf(OldEntry, CFG_ASSET_CHILDREN_KEY)) :
               ListedOld(ch, CFG_ASSET_PARENTS_KEY) => Renamed(ch, CFG_ASSET_PARENTS_KEY)

\* a retag of a tag whose parent listed it as a child has been made
C1_Witness ==
    /\ RetagDone
    /\ last.new_tag # last.tag
    /\ \E p \in Range(RelativesOf(OldEntry, CFG_ASSET_PARENTS_KEY)) :
           ListedOld(p, CFG_ASSET_CHILDREN_KEY)

\* the references <<item, tag>> of the tags that exist in genome g of c
TagsIn(c, g) == {r \in AssetNames \X TagNames : HasTag(c, g, r[1], r[2])}
RelativeKeys == {CFG_ASSET_PARENTS_KEY, CFG_ASSET_CHILDREN_KEY}
OtherKey(key) ==
    IF key = CFG_ASSET_PARENTS_KEY THEN CFG_ASSET_CHILDREN_KEY ELSE CFG_ASSET_PARENTS_KEY

\* C2 as stated: after a successful retag to another name, no tag of the
\* collection holds asset:old in its parent or child list, and every tag that
\* held it holds asset:new.
C2_AsStated ==
    (RetagDone /\ last.new_tag # last.tag) =>
        /\ \A x \in TagsIn(rgc, last.genome), key \in RelativeKeys :
               ~Refers(ListAt(rgc, last.genome, x, key), last.asset, last.tag)
        /\ \A x \in TagsIn(pre, last.genome), key \in RelativeKeys :
               ListedOld(x, key) => Renamed(x, key)

\* every edge at asset:old is recorded on both ends: a tag that holds asset:old
\* under key is held by asset:old under the other key
EdgesOfOldOnBothEnds ==
    \A x \in TagsIn(pre, last.genome), key \in RelativeKeys :
        Refers(ListAt(pre, last.genome, x, key), last.asset, last.tag)
            => Refers(RelativesOf(OldEntry, OtherKey(key)), x[1], x[2])

\* C2 amended: if every tag that holds asset:old in its parent (child) list is
\* in the child (parent) list of asset:old, then after a successful retag to
\* new # old no tag of the collection holds asset:old in its parent or child
\* list, and every tag other than asset:old and asset:new that held it holds
\* asset:new.
C2_RetagLeavesNoOldReference ==
    (RetagDone /\ last.new_tag # last.tag /\ EdgesOfOldOnBothEnds) =>
        /\ \A x \in TagsIn(rgc, last.genome), key \in RelativeKeys :
               ~Refers(ListAt(rgc, last.genome, x, key), last.asset, last.tag)
        /\ \A x \in TagsIn(pre, last.genome), key \in RelativeKeys :
               ListedOld(x, key) => Renamed(x, key)

\* a retag of a tag that another tag held, the edge recorded on both ends
C2_Witness ==
    /\ RetagDone
    /\ last.new_tag # last.tag
    /\ EdgesOfOldOnBothEnds
    /\ \E x \in TagsIn(pre, last.genome), key \in RelativeKeys : ListedOld(x, key)

\* the payload of a tag entry: every key but the two lists of relatives
Payload(tagmap) == [k \in DOMAIN tagmap \ RelativeKeys |-> tagmap[k]]
\* the entry lists the tag item:tag itself as a parent or as a child
ListsItself(tagmap, item, tag) ==
    \E key \in RelativeKeys : Refers(RelativesOf(tagmap, key), item, tag)

TripDone == trip.stage = 2
TripOld == last.new_tag
TripNew == last.tag
\* tag x has in c the lists of relatives it had before the round trip (a
\* missing list counts as an empty one)
ListsRestored(x) ==
    /\ HasTag(rgc, last.genome, x[1], x[2])
    /\ \A key \in RelativeKeys :
           ListAt(rgc, last.genome, x, key) = ListAt(trip.cfg, last.genome, x, key)

\* C4 as stated: retag(old, new) for a name new that is not yet a tag of the
\* asset, followed by retag(new, old), both successful, leaves the payload of
\* old and the parent and child lists of every other tag of the collection as
\* they were before the first retag.
C4_AsStated ==
    TripDone =>
        /\ HasTag(rgc, last.genome, last.asset, TripOld)
        /\ Payload(TagOf(rgc, last.genome, last.asset, TripOld))
               = Payload(TagOf(trip.cfg, last.genome, last.asset, TripOld))
        /\ \A x \in TagsIn(trip.cfg, last.genome) \ {<<last.asset, TripOld>>} :
               ListsRestored(x)

\* no tag of genome g holds a reference to item:tag
NoReferenceTo(c, g, item, tag) ==
    \A x \in TagsIn(c, g), key \in RelativeKeys : ~Refers(ListAt(c, g, x, key), item, tag)
\* every reference held by a tag of genome g is written "item:tag", without a
\* namespace
PlainReferences(c, g) ==
    \A x \in TagsIn(c, g), key \in RelativeKeys :
        \A r \in Range(ListAt(c, g, x, key)) : Len(r) = 2

\* C4 amended: if before the first retag no tag of the collection holds a
\* reference to asset:new and every reference is written without a namespace,
\* then retag(old, new) for a name new that is not yet a tag of the asset,
\* followed by retag(new, old), both successful, leaves the payload of old and
\* the references in the parent and child lists of every other tag of the
\* collection as they were before the first retag.
C4_RoundTripRestores ==
    (/\ TripDone
     /\ NoReferenceTo(trip.cfg, last.genome, last.asset, TripNew)
     /\ PlainReferences(trip.cfg, last.genome)) =>
        /\ HasTag(rgc, last.genome, last.asset, TripOld)
        /\ Payload(TagOf(rgc, last.genome, last.asset, TripOld))
               = Payload(TagOf(trip.cfg, last.genome, last.asset, TripOld))
        /\ \A x \in TagsIn(trip.cfg, last.genome) \ {<<last.asset, TripOld>>} :
               ListsRestored(x)

\* a round trip of a tag that has a payload and a parent that listed it as a
\* child, no tag holding a reference to the new name
C4_Witness ==
    /\ TripDone
    /\ NoReferenceTo(trip.cfg, last.genome, last.asset, TripNew)
    /\ PlainReferences(trip.cfg, last.genome)
    /\ CFG_ASSET_PATH_KEY \in DOMAIN TagOf(trip.cfg, last.genome, last.asset, TripOld)
    /\ \E p \in Range(RelativesOf(TagOf(trip.cfg, last.genome, last.asset, TripOld),
                                   CFG_ASSET_PARENTS_KEY)) :
           /\ ~Names(p, last.asset, TripOld)
           /\ Refers(ListAt(trip.cfg, last.genome, p, CFG_ASSET_CHILDREN_KEY),
                     last.asset, TripOld)

\* C5: a retag declined at the overwrite question or at the question about
\* the relatives returns None or False, raises nothing and leaves the whole
\* configuration as it was.
C5_DeclinedRetagIsNoOp ==
    (last.op = "tag_asset" /\ (~last.override \/ ~last.proceed)) =>
        /\ last.exc = ""
        /\ last.ret \in {None, "False"}
        /\ rgc = pre

\* a retag onto an existing tag, the overwrite confirmed, declined at the
\* question about the relatives
C5_Witness ==
    /\ last.op = "tag_asset"
    /\ last.new_tag # last.tag
    /\ last.asked = <<"override", "proceed">>
    /\ last.override /\ ~last.proceed
    /\ last.ret = "False"

\* C6: a retag that names an existing genome and asset and a tag the asset
\* does not have raises MissingTagError, asks no question and leaves the
\* configuration as it was.
C6_RetagOfMissingTagRaises ==
    (/\ last.op = "tag_asset"
     /\ last.tag # None
     /\ HasAsset(pre, last.genome, last.asset)
     /\ ~HasTag(pre, last.genome, last.asset, last.tag)) =>
        /\ last.exc = "MissingTagError"
        /\ last.asked = <<>>
        /\ rgc = pre

\* a retag of a tag that an asset with other tags does not have
C6_Witness ==
    /\ last.op = "tag_asset"
    /\ HasAsset(pre, last.genome, last.asset)
    /\ Len(TagsOf(pre, last.genome, last.asset)) > 0
    /\ last.tag # None
    /\ ~HasTag(pre, last.genome, last.asset, last.tag)
    /\ last.exc = "MissingTagError"

\* C7 as stated: the default pointer of every asset, if present, names a tag
\* of that asset.
C7_DefaultNamesExistingTag ==
    \A g \in GenomeNames, a \in AssetNames :
        (HasAsset(rgc, g, a) /\ CFG_ASSET_DEFAULT_TAG_KEY \in DOMAIN AssetOf(rgc, g, a))
            => HasTag(rgc, g, a, AssetOf(rgc, g, a).default_tag)

\* the tag a successful remove_assets removed
Removed == ResolveTag(pre, last.genome, last.asset, last.tag).ret
RemoveDone ==
    /\ last.op = "remove_assets" /\ last.exc = ""
    /\ HasTag(pre, last.genome, last.asset, Removed)
WasLastTag == OKeys(TagsOf(pre, last.genome, last.asset)) = {Removed}
WasLastAsset == DOMAIN pre.genomes[last.genome].assets = {last.asset}
\* the recorded default tag of asset a in genome g of c, None without one
Pointer(c, g, a) ==
    IF CFG_ASSET_DEFAULT_TAG_KEY \in DOMAIN AssetOf(c, g, a)
    THEN AssetOf(c, g, a).default_tag ELSE None
\* every genome but g, every asset of g but a and every tag of a but t is in
\* rgc as it was in pre
OthersUnchanged(g, a, t) ==
    /\ \A g2 \in GenomeNames \ {g} :
           /\ HasGenome(rgc, g2) <=> HasGenome(pre, g2)
           /\ HasGenome(pre, g2) => rgc.genomes[g2] = pre.genomes[g2]
    /\ \A a2 \in AssetNames \ {a} :
           /\ HasAsset(rgc, g, a2) <=> HasAsset(pre, g, a2)
           /\ HasAsset(pre, g, a2) => AssetOf(rgc, g, a2) = AssetOf(pre, g, a2)
    /\ \A t2 \in TagNames \ {t} :
           a # None =>
               /\ HasTag(rgc, g, a, t2) <=> HasTag(pre, g, a, t2)
               /\ HasTag(pre, g, a, t2) => TagOf(rgc, g, a, t2) = TagOf(pre, g, a, t2)

\* C8: removing the last tag of an asset removes the asset, and the genome
\* with it if that was its last asset; removing a tag that is not the last
\* one leaves the asset with its other tags, and every other asset and genome,
\* in place.
C8_CascadingDeletion ==
    RemoveDone =>
        /\ WasLastTag => ~HasAsset(rgc, last.genome, last.asset)
        /\ (WasLastTag /\ WasLastAsset) => ~HasGenome(rgc, last.genome)
        /\ ~WasLastTag =>
               /\ HasAsset(rgc, last.genome, last.asset)
               /\ TagsOf(rgc, last.genome, last.asset)
                      = ODel(TagsOf(pre, last.genome, last.asset), Removed)
               /\ OthersUnchanged(last.genome, last.asset, Removed)

\* the only tag of the only asset of a genome was removed, and the genome
\* with it
C8_Witness ==
    /\ RemoveDone
    /\ WasLastTag /\ WasLastAsset
    /\ ~HasGenome(rgc, last.genome)

UpdateDone ==
    /\ last.op \in {"update_tags", "update_assets", "update_genomes"}
    /\ last.exc = ""
NamedLevel(c) ==
    IF last.tag # None
    THEN IF HasTag(c, last.genome, last.asset, last.tag)
         THEN TagOf(c, last.genome, last.asset, last.tag) ELSE EmptyMap
    ELSE IF last.asset # None
    THEN IF HasAsset(c, last.genome, last.asset)
         THEN AssetOf(c, last.genome, last.asset) ELSE EmptyMap
    ELSE IF HasGenome(c, last.genome) THEN c.genomes[last.genome] ELSE EmptyMap
\* the same call made on configuration c
Again(c) ==
    IF last.op = "update_tags"
    THEN update_tags(c, last.genome, last.asset, last.tag, last.data)
    ELSE IF last.op = "update_assets"
    THEN update_assets(c, last.genome, last.asset, last.data)
    ELSE update_genomes(c, last.genome, last.data)

\* C10 as stated: a call that names a path and data leaves every key of data
\* with its value in the deepest named level, keeps every other key that
\* level had, leaves all other genomes, assets and tags as they were, and
\* made again changes nothing.
C10_AsStated ==
    UpdateDone =>
        /\ \A k \in DOMAIN last.data.val :
               k \in DOMAIN NamedLevel(rgc) /\ NamedLevel(rgc)[k] = last.data.val[k]
        /\ \A k \in DOMAIN NamedLevel(pre) \ DOMAIN last.data.val :
               k \in DOMAIN NamedLevel(rgc)
        /\ \A k \in DOMAIN NamedLevel(pre) \ (DOMAIN last.data.val \cup
                                              {CFG_ASSETS_KEY, CFG_ASSET_TAGS_KEY}) :
               NamedLevel(rgc)[k] = NamedLevel(pre)[k]
        /\ OthersUnchanged(last.genome, last.asset, last.tag)
        /\ Again(rgc).cfg = rgc

\* the last call was a set_default_pointer
PointerCall == last.op = "set_default_pointer"
\* the asset had a default pointer that is not the empty string
PointerRecorded(c, g, a) == Pointer(c, g, a) \notin {None, ""}
\* configuration c with nothing changed but the default pointer of g/a
PointerSet(c, g, a, t) ==
    WithAsset(c, g, a, Put(AssetOf(c, g, a), CFG_ASSET_DEFAULT_TAG_KEY, t))

\* C11 as stated: set_default_pointer on a genome that is not in the
\* configuration raises MissingGenomeError and on an asset that is not in the
\* genome MissingAssetError, changing nothing; on an asset with a non-empty
\* default pointer and no force it changes nothing; otherwise the pointer
\* becomes the tag and nothing else changes.
C11_AsStated ==
    PointerCall =>
        IF ~HasGenome(pre, last.genome)
        THEN last.exc = "MissingGenomeError" /\ rgc = pre
        ELSE IF ~HasAsset(pre, last.genome, last.asset)
        THEN last.exc = "MissingAssetError" /\ rgc = pre
        ELSE IF PointerRecorded(pre, last.genome, last.asset) /\ ~last.force
        THEN last.exc = "" /\ rgc = pre
        ELSE /\ last.exc = ""
             /\ rgc = PointerSet(pre, last.genome, last.asset, last.tag)

\* the last call was a get_default_tag
DefaultCall == last.op = "get_default_tag"
\* the call returned tag t, with or without a RuntimeWarning, and changed
\* nothing
Resolved(t, warned) ==
    last.exc = "" /\ last.ret = t /\ last.warn = warned /\ rgc = pre
\* the scenario: update_tags on an empty registry, get_default_tag,
\* set_default_pointer, get_default_tag
Scenario(g, a, t, d) ==
    \E c1 \in {update_tags(EmptyCfg, g, a, t, d).cfg} :
    \E c2 \in {set_default_pointer(c1, g, a, t, FALSE).cfg} :
        /\ get_default_tag(c1, g, a, TRUE) = ReturnWarn(c1, t)
        /\ get_default_tag(c2, g, a, TRUE) = Return(c2, t)

C13_AsStated ==
    DefaultCall => last.exc = "" /\ last.ret \in TagNames \cup {""}

\* the last call was _genome_asset_path, for a tag of the configuration that
\* has seek keys and a path
ResolveCall == last.op = "genome_asset_path"
LookedUp == TagOf(pre, last.genome, last.asset, last.tag)
Resolvable ==
    /\ HasTag(pre, last.genome, last.asset, last.tag)
    /\ CFG_SEEK_KEYS_KEY \in DOMAIN LookedUp
    /\ CFG_ASSET_PATH_KEY \in DOMAIN LookedUp
\* asset_path/tag
BareDir == Join(PathOf(LookedUp[CFG_ASSET_PATH_KEY]), PathOf(last.tag))
\* asset_path/tag and the fragment of seek key k, "." adding no component
Sought(k) ==
    IF LookedUp[CFG_SEEK_KEYS_KEY][k] = "."
    THEN Join(BareDir, EmptyPath)
    ELSE Join(BareDir, PathOf(LookedUp[CFG_SEEK_KEYS_KEY][k]))
\* the call returned path p and changed nothing
Found(p) == last.exc = "" /\ last.path = p /\ rgc = pre

\* C14: without a seek key and without enclosing_dir, a tag that has the
\* asset name among its seek keys resolves to its directory joined with the
\* fragment of that key, and a tag that does not resolves to its bare
\* directory, whatever other seek keys it has.
C14_FallbackOrder ==
    (ResolveCall /\ Resolvable /\ last.seek_key = None /\ ~last.enclosing_dir) =>
        IF last.asset \in DOMAIN LookedUp[CFG_SEEK_KEYS_KEY]
        THEN Found(Sought(last.asset))
        ELSE Found(BareDir)

\* a tag with two seek keys, one of them the asset name, resolved through
\* the asset name
C14_Witness ==
    /\ ResolveCall /\ Resolvable /\ last.seek_key = None /\ ~last.enclosing_dir
    /\ {last.asset, "fai"} \subseteq DOMAIN LookedUp[CFG_SEEK_KEYS_KEY]
    /\ last.path = Join(BareDir, PathOf("a.fa"))

\* the call named a seek key of the tag whose fragment is "."
DotCall ==
    /\ ResolveCall /\ Resolvable /\ ~last.enclosing_dir
    /\ last.seek_key \in DOMAIN LookedUp[CFG_SEEK_KEYS_KEY]
    /\ LookedUp[CFG_SEEK_KEYS_KEY][last.seek_key] = "."
\* what the same call returns with enclosing_dir=True
EnclosingDir ==
    genome_asset_path(pre, last.genome, last.asset, last.tag, last.seek_key, TRUE).ret

\* C15 as stated: a seek key whose fragment is "." resolves to the path that
\* enclosing_dir=True gives, asset_path/tag, with nothing after it.
C15_AsStated ==
    DotCall => Found(EnclosingDir) /\ Found(BareDir)

\* C15 amended: a seek key whose fragment is "." resolves to the path that
\* enclosing_dir=True gives followed by a separator: the same components,
\* none added, and a trailing separator.
C15_DotIsTagDirWithSeparator ==
    DotCall =>
        /\ EnclosingDir = BareDir
        /\ ~BareDir.trail
        /\ Found([BareDir EXCEPT !.trail = TRUE])

\* the seek key "a" of a:default, recorded as ".", was resolved
C15_Witness ==
    /\ DotCall
    /\ last.seek_key = "a"
    /\ last.path = [abs |-> TRUE, parts |-> <<"data", "a", DEFAULT_TAG>>, trail |-> TRUE,
                     ext |-> ""]

\* the last call was _genome_asset_path with enclosing_dir=True for a tag of
\* the configuration
EnclosingCall ==
    /\ ResolveCall /\ last.enclosing_dir
    /\ HasTag(pre, last.genome, last.asset, last.tag)

\* C16 as stated: with enclosing_dir=True every tag of the configuration
\* that records a path resolves to asset_path/tag, whether or not a seek key
\* was given, is a seek key of the tag, or the tag has seek keys at all.
C16_AsStated ==
    (EnclosingCall /\ CFG_ASSET_PATH_KEY \in DOMAIN LookedUp) => Found(BareDir)

\* C16 amended: with enclosing_dir=True a tag that has a seek_keys mapping
\* and a path resolves to asset_path/tag, whether or not a seek key was given
\* or is a seek key of the tag; a tag without a seek_keys mapping raises
\* MissingSeekKeyError, and one with seek keys and without a path KeyError.
C16_EnclosingDirOfCompleteTag ==
    EnclosingCall =>
        IF CFG_SEEK_KEYS_KEY \notin DOMAIN LookedUp
        THEN last.exc = "MissingSeekKeyError" /\ rgc = pre
        ELSE IF CFG_ASSET_PATH_KEY \notin DOMAIN LookedUp
        THEN last.exc = "KeyError" /\ rgc = pre
        ELSE Found(BareDir)

\* enclosing_dir=True with a seek key the tag does not have
C16_Witness ==
    /\ EnclosingCall /\ Resolvable
    /\ last.seek_key # None
    /\ last.seek_key \notin DOMAIN LookedUp[CFG_SEEK_KEYS_KEY]
    /\ Found(BareDir)

\* the last call was a lookup, get_asset being given a one-argument function
LookupCall ==
    \/ ResolveCall
    \/ last.op = "get_asset" /\ last.check_exist.callable
\* the tag the lookup names: the tag given, else the default tag
LookupTag ==
    IF last.tag # None THEN last.tag
    ELSE get_default_tag(pre, last.genome, last.asset, TRUE).ret
\* the lookup raised e, returned no path and changed nothing
Failed(e) == last.exc = e /\ last.path = EmptyPath /\ rgc = pre

\* C17 as stated: a lookup of a genome that is not in the configuration
\* raises MissingGenomeError, of an asset that is not in the genome
\* MissingAssetError, of a tag the asset does not have MissingTagError, and
\* (enclosing_dir apart) of a seek key that a tag with seek keys does not
\* have MissingSeekKeyError; no path is returned and nothing changes.
C17_AsStated ==
    LookupCall =>
        IF ~HasGenome(pre, last.genome) THEN Failed("MissingGenomeError")
        ELSE IF ~HasAsset(pre, last.genome, last.asset) THEN Failed("MissingAssetError")
        ELSE IF last.tag # None /\ ~HasTag(pre, last.genome, last.asset, last.tag)
        THEN Failed("MissingTagError")
        ELSE (/\ HasTag(pre, last.genome, last.asset, LookupTag)
              /\ CFG_SEEK_KEYS_KEY \in DOMAIN TagOf(pre, last.genome, last.asset, LookupTag)
              /\ last.seek_key # None
              /\ last.seek_key \notin
                     DOMAIN TagOf(pre, last.genome, last.asset, LookupTag)[CFG_SEEK_KEYS_KEY]
              /\ ~last.enclosing_dir) => Failed("MissingSeekKeyError")

\* the last call was a get_asset that computed a path
Computed ==
    genome_asset_path(pre, last.genome, last.asset, LookupTag, last.seek_key,
                      last.enclosing_dir)
LocateCall ==
    /\ last.op = "get_asset" /\ last.check_exist.callable
    /\ ResolveTag(pre, last.genome, last.asset, last.tag).exc = ""
    /\ Computed.exc = ""
\* genome_folder/genome/path for a relative path; an absolute path is not
\* re-rooted
Rerooted(path) ==
    IF path.abs THEN path
    ELSE [abs |-> TRUE, parts |-> GenomeFolder.parts \o <<last.genome>> \o path.parts,
          trail |-> path.trail, ext |-> ""]
\* the same call with a check_exist that says the opposite of the archives
OtherArchives ==
    get_asset(pre, last.genome, last.asset, last.tag, last.seek_key, last.strict_exists,
              [last.check_exist EXCEPT !.variants = ~@], last.enclosing_dir)

\* C18: get_asset returns the computed path if it is absolute and passes
\* check_exist; else the path under genome_folder/genome if that passes;
\* else it raises IOError (strict_exists True), warns and returns the
\* computed path (False) or just returns the computed path (None).  What
\* check_exist says of the .tar.gz and .tar variants changes nothing of this,
\* and no path with such a suffix is returned.
C18_ExistencePolicy ==
    LocateCall =>
        /\ IF Computed.ret.abs /\ Exists(last.check_exist, Computed.ret)
           THEN Found(Computed.ret)
           ELSE IF Exists(last.check_exist, Rerooted(Computed.ret))
           THEN Found(Rerooted(Computed.ret))
           ELSE IF last.strict_exists = "True"
           THEN Failed("IOError")
           ELSE IF last.strict_exists = "False"
           THEN Found(Computed.ret) /\ last.warn
           ELSE Found(Computed.ret)
        /\ last.path.ext = ""
        /\ OtherArchives.exc = last.exc
        /\ OtherArchives.exc = "" => OtherArchives.ret = last.path
        /\ OtherArchives.warn = last.warn

\* neither path exists, the archives do: the computed path is returned with
\* a warning
C18_Witness ==
    /\ LocateCall
    /\ last.strict_exists = "False"
    /\ last.check_exist = CheckExist(TRUE, FALSE, FALSE, FALSE)
    /\ ~Computed.ret.abs
    /\ Found(Computed.ret) /\ last.warn

(***************************************************************************)
(* C19: a pull of an asset that declares a parent whose remote digest      *)
(* differs from the digest recorded locally for that parent tag ends with  *)
(* RefgenconfError, never enters Download, and leaves the configuration as *)
(* it was before the pull began, also when other declared parents were     *)
(* checked earlier in the same pull.                                       *)
(***************************************************************************)
\* a pull_asset call has ended
Pulled == last.op = "pull_asset" /\ pull.pc = "done"
\* the digest that configuration c records for the tag a reference names
Recorded(c, name) ==
    IF HasTag(c, pull.genome, prp(name).item, prp(name).tag)
       /\ CFG_ASSET_CHECKSUM_KEY \in DOMAIN TagOf(c, pull.genome, prp(name).item,
                                                  prp(name).tag)
    THEN TagOf(c, pull.genome, prp(name).item, prp(name).tag)[CFG_ASSET_CHECKSUM_KEY]
    ELSE None
\* the last parent checked is one whose digest, recorded before the pull
\* began, differs from the remote one
ParentDiffers ==
    /\ Pulled /\ pull.check.count > 0
    /\ Recorded(pre, pull.check.name) \notin {None, pull.check.remote}
C19_AsStated ==
    ParentDiffers =>
        /\ last.exc = "RefgenconfError"
        /\ \A i \in DOMAIN pull.entered : pull.entered[i] # "Download"
        /\ rgc = pre

(***************************************************************************)
(* C20: during CheckParentDigests, if the local entry for a declared       *)
(* parent tag is missing or has no seek-key map, the pull records the      *)
(* remote digest on that entry and continues; it aborts only when the      *)
(* local entry is complete and its digest differs from the remote one.     *)
(* As stated this fails; what holds is: a parent tag with no entry gets    *)
(* one holding the remote digest and the pull continues; an entry that     *)
(* records a digest, complete or not, is compared with the remote digest   *)
(* and left alone, the pull continuing when they are equal and ending with *)
(* RefgenconfError when they differ; an entry that records no digest ends  *)
(* the pull with KeyError, a genomes section left as None with TypeError.  *)
(***************************************************************************)
\* the last step of the pull was the check of a declared parent
JustChecked ==
    /\ last.op = "pull_asset" /\ pull.check.count > 0
    /\ pull.pc = "CheckParentDigests" \/ (pull.pc = "done" /\ pull.check.exc # "")
\* the parent checked last, in the configuration the check found
ParentEntry(c) == HasTag(c, pull.genome, prp(pull.check.name).item, prp(pull.check.name).tag)
ParentTag(c) == TagOf(c, pull.genome, prp(pull.check.name).item, prp(pull.check.name).tag)
Adopted ==
    /\ pull.check.exc = ""
    /\ Recorded(rgc, pull.check.name) = pull.check.remote
C20_AsStated ==
    JustChecked =>
        /\ (~ParentEntry(pull.check.cfg)
             \/ CFG_SEEK_KEYS_KEY \notin DOMAIN ParentTag(pull.check.cfg)) => Adopted
        /\ pull.check.exc # "" =>
               /\ ParentEntry(pull.check.cfg)
               /\ CFG_SEEK_KEYS_KEY \in DOMAIN ParentTag(pull.check.cfg)
               /\ Recorded(pull.check.cfg, pull.check.name) # pull.check.remote
C20_ParentDigestPolicy ==
    JustChecked =>
        IF pull.check.cfg.genomes_none
        THEN pull.check.exc = "TypeError" /\ rgc = pull.check.cfg
        ELSE IF ~ParentEntry(pull.check.cfg)
        THEN /\ pull.check.exc = ""
             /\ ParentEntry(rgc)
             /\ ParentTag(rgc) = (CFG_ASSET_CHECKSUM_KEY :> pull.check.remote)
        ELSE /\ rgc = pull.check.cfg
             /\ pull.check.exc =
                    IF Recorded(pull.check.cfg, pull.check.name) = None THEN "KeyError"
                    ELSE IF Recorded(pull.check.cfg, pull.check.name) = pull.check.remote
                    THEN ""
                    ELSE "RefgenconfError"
\* an entry without seek keys whose digest differs from the remote one ended the pull
C20_Witness ==
    /\ JustChecked
    /\ ParentEntry(pull.check.cfg)
    /\ CFG_SEEK_KEYS_KEY \notin DOMAIN ParentTag(pull.check.cfg)
    /\ Recorded(pull.check.cfg, pull.check.name) # pull.check.remote
    /\ pull.pc = "done" /\ last.exc = "RefgenconfError"

(***************************************************************************)
(* C21: when the tag directory exists, force False ends the pull returning *)
(* the directory, nothing removed, nothing downloaded, the configuration   *)
(* unchanged; force None does the same when the user declines, and removes *)
(* the directory and goes on otherwise; force True removes it without      *)
(* asking and goes on.  When the directory does not exist, force has no    *)
(* effect.                                                                 *)
(***************************************************************************)
Entered(state) == \E i \in DOMAIN pull.entered : pull.entered[i] = state
Requested(request) == \E i \in DOMAIN pull.requests : pull.requests[i] = request
AskedFor(question) == \E i \in DOMAIN pull.asked : pull.asked[i] = question
\* CheckLocalExisting has looked for the tag directory
Looked == last.op = "pull_asset" /\ pull.tag_dir # ""
Skipped ==
    /\ pull.pc \in {"done", "exited"}
    /\ last.exc = "" /\ last.ret = "tag_dir"
    /\ pull.tag_dir = "kept" /\ pull.archive = "none"
    /\ ~Requested("archive") /\ ~Entered("CheckParentDigests")
    /\ rgc = pre /\ ~pull.wrote
Proceeded == pull.tag_dir \in {"removed", "installed"} /\ Entered("CheckParentDigests")
C21_ForcePolicy ==
    Looked =>
        IF ~pull.existed
        THEN /\ ~AskedFor("Replace existing")
             /\ pull.tag_dir \in {"absent", "partial", "installed"}
             /\ Entered("CheckParentDigests")
        ELSE IF pull.force = "False" THEN Skipped /\ ~AskedFor("Replace existing")
        ELSE IF pull.force = "True" THEN Proceeded /\ ~AskedFor("Replace existing")
        ELSE /\ AskedFor("Replace existing")
             /\ IF pull.answer = "no" THEN Skipped ELSE pull.answer = "yes" /\ Proceeded
\* the user was asked, declined, and the pull returned the directory
C21_Witness ==
    /\ Looked /\ pull.existed /\ pull.force = None /\ pull.answer = "no"
    /\ pull.pc = "done" /\ last.ret = "tag_dir"

(***************************************************************************)
(* C22: SizeConfirm asks for confirmation exactly when the size string     *)
(* denotes at least 1 TB or at least 5 GB, 5 GB itself included; declining *)
(* ends the pull with a null path, nothing downloaded, the tag not         *)
(* registered.  As stated this fails at 5 GB; what holds is: confirmation  *)
(* is asked exactly when the string ends in TB, or ends in GB with a       *)
(* number greater than 5.                                                  *)
(***************************************************************************)
\* SizeConfirm has read the size of the archive
Sized == last.op = "pull_asset" /\ pull.size.unit # ""
\* what the size string denotes, in tenths of a GB
GBTenths(size) ==
    IF size.unit = "TB" THEN size.tenths * 1000
    ELSE IF size.unit = "GB" THEN size.tenths
    ELSE size.tenths \div 1000
\* the entry of the pulled tag in configuration c
PulledTag(c) ==
    IF HasTag(c, pull.genome, pull.asset, pull.tag)
    THEN [has |-> TRUE, data |-> TagOf(c, pull.genome, pull.asset, pull.tag)]
    ELSE [has |-> FALSE, data |-> EmptyMap]
\* the question was asked and the pull did not go on to Download
Declined == AskedFor("Are you sure") /\ ~Entered("Download")
DeclinedEnds ==
    Declined =>
        /\ pull.pc \in {"done", "exited"}
        /\ last.exc = "" /\ last.ret = None
        /\ ~Requested("archive") /\ pull.archive = "none"
        /\ PulledTag(rgc) = PulledTag(pre) /\ ~pull.wrote
C22_AsStated ==
    Sized =>
        /\ AskedFor("Are you sure") <=> GBTenths(pull.size) >= 50
        /\ DeclinedEnds
C22_SizeThreshold ==
    Sized =>
        /\ AskedFor("Are you sure") <=>
               \/ pull.size.unit = "TB"
               \/ pull.size.unit = "GB" /\ pull.size.tenths > 50
        /\ DeclinedEnds
\* an archive of 5 GB went on to Download without a question
C22_Witness ==
    /\ Sized /\ pull.size = [tenths |-> 50, unit |-> "GB"]
    /\ ~AskedFor("Are you sure") /\ Entered("Download")

(***************************************************************************)
(* C23: no network failure in a pull (default-tag lookup, metadata fetch,  *)
(* parent-digest lookup, archive download) raises past the pull call: each *)
(* ends the pull returning the asset name with a null path.                *)
(***************************************************************************)
\* the errors that _download_json and urlretrieve raise when a request fails
NetworkErrors ==
    {"DownloadJsonError", "HTTPError", "ConnectionRefusedError", "ContentTooShortError",
     "URLError"}
C23_AsStated ==
    last.op = "pull_asset" /\ pull.pc = "done" =>
        /\ last.exc \notin NetworkErrors
        /\ pull.failure # "" => last.exc = "" /\ last.ret = None

(***************************************************************************)
(* C24: each of the three download failures (not found on the server,      *)
(* connection refused, truncated content) ends the pull with a null path,  *)
(* and the configuration after it, in memory and as written, is the one    *)
(* before the pull began.                                                  *)
(***************************************************************************)
\* the download failed with one of the three errors that pull_asset catches
DownloadFailed ==
    /\ last.op = "pull_asset" /\ pull.pc = "done"
    /\ pull.failure \in {"HTTPError", "ConnectionRefusedError", "ContentTooShortError"}
C24_AsStated ==
    DownloadFailed =>
        /\ last.exc = "" /\ last.ret = None
        /\ rgc = pre /\ ~pull.wrote

(***************************************************************************)
(* C25: whenever a pull ends because the download was truncated or failed  *)
(* otherwise, the staged archive <asset>__<tag>.tgz no longer exists when  *)
(* the outcome is returned.                                                *)
(***************************************************************************)
C25_AsStated ==
    last.op = "pull_asset" /\ pull.pc = "done" /\ pull.failure # "" =>
        pull.archive = "none"

(***************************************************************************)
(* C26: when the server declares a checksum and the checksum of the        *)
(* downloaded archive differs from it, the pull ends with a null path, the *)
(* archive is no longer on disk, Extract and Commit are never entered and  *)
(* the configuration is not changed; when no checksum is declared the pull *)
(* goes on to Extract.                                                     *)
(***************************************************************************)
\* VerifyChecksum has computed the checksum of the archive
Verified == last.op = "pull_asset" /\ pull.new_checksum # None
ChecksumDiffers == Verified /\ pull.old_checksum \notin {None, pull.new_checksum}
C26_AsStated ==
    /\ ChecksumDiffers /\ pull.pc = "done" =>
           /\ last.exc = "" /\ last.ret = None
           /\ pull.archive = "none"
           /\ ~Entered("Extract") /\ ~Entered("Commit")
           /\ rgc = pre /\ ~pull.wrote
    /\ Verified /\ pull.old_checksum = None => Entered("Extract")

(***************************************************************************)
(* C27: if SIGINT arrives while the archive is being downloaded, the       *)
(* partial archive is deleted and the process terminates; the tag is not   *)
(* written to the configuration and the configuration is not written to    *)
(* its file.  No interrupted pull leaves the tag in the file.              *)
(***************************************************************************)
\* SIGINT arrived while urlretrieve was running
InterruptedDownload ==
    last.op = "pull_asset" /\ pull.interrupted = "Download" /\ pull.downloading
C27_InterruptedDownload ==
    /\ InterruptedDownload =>
           /\ pull.pc = "exited" /\ pull.by = "download" /\ last.exc = "SystemExit"
           /\ pull.archive = "none"
           /\ PulledTag(rgc) = PulledTag(pre)
           /\ ~pull.recorded /\ ~pull.wrote
    /\ pull.interrupted \notin {"", "done"} => ~pull.wrote
\* the download had written part of the archive when SIGINT arrived
C27_Witness ==
    /\ InterruptedDownload /\ pull.pc = "exited" /\ pull.archive = "none"
    /\ pull.check.count > 0

(***************************************************************************)
(* C28: if the genome folder holds an environment variable that is not     *)
(* set, the pull fails with UnboundEnvironmentVariablesError before any    *)
(* request is sent to the server and before any file or the configuration  *)
(* is changed.                                                             *)
(***************************************************************************)
C28_UnboundFailsFirst ==
    last.op = "pull_asset" /\ pull.unbound =>
        /\ pull.pc \in {"done", "exited"}
        /\ last.exc = "UnboundEnvironmentVariablesError"
        /\ pull.requests = <<>> /\ pull.entered = <<>> /\ pull.asked = <<>>
        /\ pull.tag_dir = "" /\ pull.archive = "none"
        /\ rgc = pre /\ ~pull.wrote
\* a pull without a tag, which would ask for the default tag first, failed
C28_Witness ==
    /\ last.op = "pull_asset" /\ pull.unbound /\ pull.tag = None
    /\ pull.pc = "done" /\ last.exc = "UnboundEnvironmentVariablesError"

(***************************************************************************)
(* C29: the download's SIGINT handler is in effect in Download only: it is *)
(* installed on entering Download and on every way out of Download the     *)
(* handling in effect before the pull is in effect again, so a SIGINT      *)
(* during VerifyChecksum, Extract, Commit or after the pull returned is    *)
(* not handled by the download's handler.                                  *)
(***************************************************************************)
C29_AsStated ==
    /\ pull.handler = "download" => pull.pc \in {"Download", "exited"}
    /\ pull.interrupted \in {"VerifyChecksum", "Extract", "Commit", "done"} =>
           pull.by # "download"

(***************************************************************************)
(* C30: the configuration is written to its file only in Commit, and       *)
(* Commit is reached only after the download succeeded, the checksum       *)
(* matched or none was declared, and the archive was extracted; after      *)
(* Commit the tag entry holds the attributes copied from the archive, and  *)
(* the pulled tag is the asset's default only if the asset had no          *)
(* non-empty default before, an existing default being kept.               *)
(***************************************************************************)
PullStates ==
    <<"ResolveTag", "CheckLocalExisting", "CheckParentDigests", "SizeConfirm", "Download",
      "VerifyChecksum", "Extract", "Commit">>
\* the default tag that configuration c records for the pulled asset, "" if none
DefaultOf(c) ==
    IF HasAsset(c, pull.genome, pull.asset)
       /\ CFG_ASSET_DEFAULT_TAG_KEY \in DOMAIN AssetOf(c, pull.genome, pull.asset)
    THEN AssetOf(c, pull.genome, pull.asset)[CFG_ASSET_DEFAULT_TAG_KEY]
    ELSE ""
Copied ==
    /\ PulledTag(rgc).has
    /\ \A k \in DOMAIN ArchiveData(pull.asset, pull.declared).val :
           /\ k \in DOMAIN PulledTag(rgc).data
           /\ PulledTag(rgc).data[k] = ArchiveData(pull.asset, pull.declared).val[k]
C30_CommitOrdering ==
    last.op = "pull_asset" =>
        /\ pull.wrote => pull.recorded
        /\ pull.recorded => Entered("Commit")
        /\ Entered("Commit") =>
               /\ pull.entered = PullStates
               /\ pull.failure = "" /\ Requested("archive")
               /\ pull.new_checksum # None
               /\ pull.old_checksum \in {None, pull.new_checksum}
               /\ pull.tag_dir = "installed"
        /\ pull.recorded =>
               /\ Copied
               /\ DefaultOf(rgc) = IF DefaultOf(pre) # "" THEN DefaultOf(pre) ELSE pull.tag
\* a tag other than the asset's default was pulled, written, and the default kept
C30_Witness ==
    /\ last.op = "pull_asset" /\ pull.wrote /\ pull.pc = "done"
    /\ DefaultOf(pre) # "" /\ DefaultOf(pre) # pull.tag /\ DefaultOf(rgc) = DefaultOf(pre)

(***************************************************************************)
(* C31: the archive is unpacked into a scratch directory only; whatever    *)
(* step a pull is at, also when it is interrupted or fails in Extract, the *)
(* tag directory is absent or fully populated, never half-populated; and   *)
(* after a successful install neither the scratch directory nor the        *)
(* archive remains.                                                        *)
(***************************************************************************)
C31_AsStated ==
    last.op = "pull_asset" =>
        /\ pull.tag_dir # "partial"
        /\ pull.scratch = "partial" => pull.tag_dir \in {"absent", "removed"}
        /\ pull.wrote => pull.scratch = "none" /\ pull.archive = "none"

(***************************************************************************)
(* C32: after a successful retag, the default pointer of the asset names   *)
(* newTag if oldTag was the recorded default; if another tag was the       *)
(* recorded default, or none was recorded, the pointer is as it was.       *)
(***************************************************************************)
\* the recorded default tag of the retagged asset in c, None without one
RecordedDefault(c) ==
    IF HasAsset(c, last.genome, last.asset) THEN Pointer(c, last.genome, last.asset)
    ELSE None
C32_AsStated ==
    RetagDone =>
        IF RecordedDefault(pre) = last.tag
        THEN RecordedDefault(rgc) = last.new_tag
        ELSE RecordedDefault(rgc) = RecordedDefault(pre)

(***************************************************************************)
(* C33: a retag of a tag that lists, as parent or child, a reference to a  *)
(* tag that does not exist skips that reference: it returns success, the   *)
(* tag is renamed, no entry is made for the missing reference, and every   *)
(* listed relative that exists and held the old name holds the new one.    *)
(***************************************************************************)
\* a tag_asset call on a tag that _assert_gat_exists accepts, every question
\* answered yes
RetagConfirmed ==
    /\ last.op = "tag_asset" /\ last.tag # None
    /\ AssertGatExists(pre, last.genome, last.asset, last.tag, FALSE) = ""
    /\ last.override /\ last.proceed
\* reference r names no tag of the registry before the call
Missing(r) == ~HasTag(pre, last.genome, prp(r).item, prp(r).tag)
\* the references the old tag lists that name no tag
MissingRelatives ==
    {r \in UNION {Range(RelativesOf(OldEntry, key)) : key \in RelativeKeys} : Missing(r)}
C33_RetagSkipsMissingRelatives ==
    (RetagConfirmed /\ MissingRelatives # {}) =>
        /\ RetagDone
        /\ \A r \in MissingRelatives :
               ~Names(r, last.asset, last.new_tag)
                   => ~HasTag(rgc, last.genome, prp(r).item, prp(r).tag)
        /\ last.new_tag # last.tag =>
               /\ HasTag(rgc, last.genome, last.asset, last.new_tag)
               /\ ~HasTag(rgc, last.genome, last.asset, last.tag)
               /\ \A key \in RelativeKeys :
                      \A r \in Range(RelativesOf(OldEntry, key)) :
                          ListedOld(r, OtherKey(key)) => Renamed(r, OtherKey(key))
\* the retagged tag listed a child that does not exist and one that does and
\* held the old name
C33_Witness ==
    /\ RetagConfirmed /\ RetagDone /\ last.new_tag # last.tag
    /\ \E r \in MissingRelatives :
           /\ r \in Range(RelativesOf(OldEntry, CFG_ASSET_CHILDREN_KEY))
           /\ ~Names(r, last.asset, last.new_tag)
    /\ \E r \in Range(RelativesOf(OldEntry, CFG_ASSET_CHILDREN_KEY)) :
           ListedOld(r, CFG_ASSET_PARENTS_KEY)

(***************************************************************************)
(* C34: if every parent reference in the collection has a matching child   *)
(* reference on the tag it names and every child reference a matching      *)
(* parent reference, and newTag is not yet a tag of the asset, then after  *)
(* a successful retag the same holds, and the parent and child lists of    *)
(* every tag are what they were with asset:oldTag replaced by asset:newTag *)
(* and nothing else changed: no entry added, removed or moved, no list     *)
(* made.                                                                   *)
(***************************************************************************)
\* every reference a tag of genome g holds names a tag that holds a reference
\* to it in the opposite list
Symmetric(c, g) ==
    \A x \in TagsIn(c, g), key \in RelativeKeys :
        \A r \in Range(ListAt(c, g, x, key)) :
            /\ HasTag(c, g, prp(r).item, prp(r).tag)
            /\ Refers(ListAt(c, g, r, OtherKey(key)), x[1], x[2])
\* a list with every reference to the old tag replaced by one to the new tag
Replaced(list) ==
    [i \in DOMAIN list |->
        IF Names(list[i], last.asset, last.tag) THEN FormatRef(last.asset, last.new_tag)
        ELSE list[i]]
\* the name after the retag of the tag named x before it
NewName(x) == IF x = <<last.asset, last.tag>> THEN <<last.asset, last.new_tag>> ELSE x
\* a successful retag to a name that was not a tag, on a symmetric collection
SymmetricRetag ==
    /\ RetagDone
    /\ ~HasTag(pre, last.genome, last.asset, last.new_tag)
    /\ Symmetric(pre, last.genome)
C34_RetagPreservesSymmetry ==
    SymmetricRetag =>
        /\ Symmetric(rgc, last.genome)
        /\ TagsIn(rgc, last.genome) = {NewName(x) : x \in TagsIn(pre, last.genome)}
        /\ \A x \in TagsIn(pre, last.genome), key \in RelativeKeys :
               /\ key \in DOMAIN TagOf(rgc, last.genome, NewName(x)[1], NewName(x)[2])
                      <=> key \in DOMAIN TagOf(pre, last.genome, x[1], x[2])
               /\ ListAt(rgc, last.genome, NewName(x), key)
                      = Replaced(ListAt(pre, last.genome, x, key))
\* the retagged tag had a parent and a child, and its parent another child
C34_Witness ==
    /\ SymmetricRetag
    /\ Len(RelativesOf(OldEntry, CFG_ASSET_CHILDREN_KEY)) > 0
    /\ \E p \in Range(RelativesOf(OldEntry, CFG_ASSET_PARENTS_KEY)) :
           Len(ListAt(pre, last.genome, p, CFG_ASSET_CHILDREN_KEY)) > 1

(***************************************************************************)
(* C35: a pull that finds the tag directory and does not end as Installed  *)
(* (a parent digest differs, the size is not confirmed, the download       *)
(* fails, the checksum differs) leaves the tag directory in place with the *)
(* content it had.                                                         *)
(***************************************************************************)
\* the pull is over and did not install the asset
NotInstalled ==
    /\ last.op = "pull_asset" /\ pull.pc \in {"done", "exited"}
    /\ pull.interrupted \in {"", "done"}
    /\ ~(last.exc = "" /\ last.ret = "asset_path")
C35_AsStated ==
    (NotInstalled /\ pull.existed) => pull.tag_dir = "kept"

(***************************************************************************)
(* C36: after a tag is removed no remaining tag of the collection holds a  *)
(* reference to it in its parent or child list; and in every state         *)
(* update_tags, remove_assets and tag_asset lead to from a registry        *)
(* without dangling references, every reference names an existing tag.     *)
(***************************************************************************)
\* every reference held by a tag of genome g names a tag of genome g
NoDangling(c, g) ==
    \A x \in TagsIn(c, g), key \in RelativeKeys :
        \A r \in Range(ListAt(c, g, x, key)) : HasTag(c, g, prp(r).item, prp(r).tag)
C36_AsStated ==
    /\ RemoveDone => NoReferenceTo(rgc, last.genome, last.asset, Removed)
    /\ \A g \in GenomeNames : NoDangling(rgc, g)

(***************************************************************************)
(* C37: when update_tags rejects an argument (an asset or tag name that is *)
(* no string, data that is no mapping) it raises TypeError and the         *)
(* configuration is what it was before the call: no genome, asset or tag   *)
(* level named earlier in the call has been made.                          *)
(***************************************************************************)
\* the last call was an update_tags that raised TypeError
Rejected == last.op = "update_tags" /\ last.exc = "TypeError"
C37_AsStated ==
    Rejected => rgc = pre

(***************************************************************************)
(* C38: after the last tag of the last asset of the last genome has been   *)
(* removed the genomes map is still a mapping, and update_tags,            *)
(* set_default_pointer, get_default_tag and remove_assets called next do   *)
(* what they do on a freshly created empty registry.                       *)
(***************************************************************************)
\* the last call, made on a freshly created empty registry
OnEmpty ==
    IF last.op = "update_tags"
    THEN update_tags(EmptyCfg, last.genome, last.asset, last.tag, last.data)
    ELSE IF last.op = "set_default_pointer"
    THEN set_default_pointer(EmptyCfg, last.genome, last.asset, last.tag, last.force)
    ELSE IF last.op = "get_default_tag"
    THEN get_default_tag(EmptyCfg, last.genome, last.asset, last.use_existing)
    ELSE remove_assets(EmptyCfg, last.genome, last.asset, last.tag)
\* the last call was one of the four, made on the emptied registry
OnEmptied ==
    /\ last.op \in {"update_tags", "set_default_pointer", "get_default_tag", "remove_assets"}
    /\ pre.genomes_none
C38_AsStated ==
    /\ (steps > 0 /\ ~pre.genomes_none) => ~rgc.genomes_none
    /\ OnEmptied =>
           /\ last.exc = OnEmpty.exc /\ last.ret = OnEmpty.ret
           /\ rgc.genomes = OnEmpty.cfg.genomes
====
